---- MODULE Spec2Model ----
\* Verification model of the spotify-organizer storage layer:
\* src/js/spotify-api.js (rate-limited transport, chunked object store,
\* legacy migrator, bulk reset) and the handlers of src/js/app.js that
\* drive it.
\*
\* Texts (JSON documents, playlist names, descriptions) are TLA+ strings;
\* a character is a string of length one.
EXTENDS Integers, Sequences, FiniteSets, TLC

\* ------------------------------------------------------------------
\* Program constants (src/unnamed/part_001 is js/config.js)
\* ------------------------------------------------------------------
DESCRIPTION_MAX_LENGTH == 280
DATA_PLAYLIST_PREFIX == "__ArtistOrganizer_Data"
\* The guitar emoji of the two prefixes is written "@" (one character that
\* occurs in no other name of the model).
CATEGORY_PREFIX == "@ ArtistOrganizer/"
OLD_PREFIX == "@ "
\* default value of rateLimitedFetch's parameter `retries`
retries == 3

\* ------------------------------------------------------------------
\* String primitives
\* ------------------------------------------------------------------
CharAt(s, i) == SubSeq(s, i, i)

Min(S) == CHOOSE x \in S : \A y \in S : x <= y

\* String.prototype.startsWith
startsWith(s, prefix) ==
  /\ Len(s) >= Len(prefix)
  /\ SubSeq(s, 1, Len(prefix)) = prefix

\* Concatenation of f[a] .. f[b] (balanced, so that the evaluation depth is
\* logarithmic in the length of the text).
RECURSIVE Flatten(_, _, _)
Flatten(f, a, b) ==
  IF a > b THEN ""
  ELSE IF a = b THEN f[a]
  ELSE LET m == (a + b) \div 2
       IN Flatten(f, a, m) \o Flatten(f, m + 1, b)

\* String.prototype.replace(/pat/g, rep) for a literal pattern that cannot
\* overlap itself (every pattern of the program starts with "&" and has no
\* other "&"): each occurrence is replaced, everything else is copied.
ReplaceAll(s, pat, rep) ==
  LET n == Len(s)
      k == Len(pat)
      first == CharAt(pat, 1)
      S == {j \in 1..(n - k + 1) :
              CharAt(s, j) = first /\ SubSeq(s, j, j + k - 1) = pat}
  IN IF S = {} THEN s
     ELSE Flatten([j \in 1..n |->
                     IF j \in S THEN rep
                     ELSE IF \E d \in 1..(k - 1) : (j - d) \in S THEN ""
                     ELSE CharAt(s, j)], 1, n)

Digits == {"0", "1", "2", "3", "4", "5", "6", "7", "8", "9"}

DigitVal(c) ==
  CASE c = "0" -> 0 [] c = "1" -> 1 [] c = "2" -> 2 [] c = "3" -> 3
    [] c = "4" -> 4 [] c = "5" -> 5 [] c = "6" -> 6 [] c = "7" -> 7
    [] c = "8" -> 8 [] c = "9" -> 9

DigitChar(d) == CharAt("0123456789", d + 1)

IsDigits(s) == Len(s) >= 1 /\ \A i \in 1..Len(s) : CharAt(s, i) \in Digits

\* parseInt(s, 10) of a string of decimal digits
RECURSIVE parseInt(_)
parseInt(s) ==
  IF Len(s) = 0 THEN 0
  ELSE 10 * parseInt(SubSeq(s, 1, Len(s) - 1)) + DigitVal(CharAt(s, Len(s)))

\* template-literal rendering of a non-negative integer
RECURSIVE IntToString(_)
IntToString(n) ==
  IF n < 10 THEN DigitChar(n)
  ELSE IntToString(n \div 10) \o DigitChar(n % 10)

\* ------------------------------------------------------------------
\* JSON values.  A value is a record [t, v]:
\*   t = "obj": v is the sequence of <<key, value>> pairs (own properties
\*              in insertion order, keys unique),
\*   t = "arr": v is the sequence of element values,
\*   t = "str": v is the string,
\*   t = "num": v is the numeral as written,
\*   t = "lit": v is "true", "false" or "null".
\* ------------------------------------------------------------------
JObj(members) == [t |-> "obj", v |-> members]
JArr(elems) == [t |-> "arr", v |-> elems]
JStr(s) == [t |-> "str", v |-> s]
JNum(s) == [t |-> "num", v |-> s]
JLit(s) == [t |-> "lit", v |-> s]

EmptyObject == JObj(<<>>)

\* the value { _corrupted: true }
Corrupted == JObj(<< <<"_corrupted", JLit("true")>> >>)

Keys(o) == [i \in 1..Len(o.v) |-> o.v[i][1]]
KeySet(o) == {o.v[i][1] : i \in 1..Len(o.v)}
HasKey(o, k) == \E i \in 1..Len(o.v) : o.v[i][1] = k
Get(o, k) == o.v[CHOOSE i \in 1..Len(o.v) : o.v[i][1] = k][2]

\* o[k] = val: an existing property keeps its position, a new one is added
\* last.
Put(o, k, val) ==
  IF HasKey(o, k)
  THEN JObj([i \in 1..Len(o.v) |->
               IF o.v[i][1] = k THEN <<k, val>> ELSE o.v[i]])
  ELSE JObj(Append(o.v, <<k, val>>))

\* Two objects with the same properties (the order of the keys is not part
\* of a mapping).
SameObject(a, b) ==
  /\ a.t = "obj" /\ b.t = "obj"
  /\ KeySet(a) = KeySet(b)
  /\ \A k \in KeySet(a) : Get(a, k) = Get(b, k)

\* A category mapping: an object whose values are lists of strings.
IsMapping(x) ==
  /\ x.t = "obj"
  /\ \A i \in 1..Len(x.v) :
       /\ x.v[i][2].t = "arr"
       /\ \A j \in 1..Len(x.v[i][2].v) : x.v[i][2].v[j].t = "str"

\* ------------------------------------------------------------------
\* JSON.stringify
\* ------------------------------------------------------------------
\* The escape JSON.stringify writes for one character of a string.
QuoteChar(c) ==
  CASE c = "\"" -> "\\\""
    [] c = "\\" -> "\\\\"
    [] c = "\n" -> "\\n"
    [] c = "\r" -> "\\r"
    [] c = "\t" -> "\\t"
    [] c = "\f" -> "\\f"
    [] OTHER -> c

QuoteString(s) ==
  "\"" \o Flatten([i \in 1..Len(s) |-> QuoteChar(CharAt(s, i))], 1, Len(s))
       \o "\""

\* parts[a] , parts[a+1] , ... , parts[b]
RECURSIVE JoinComma(_, _, _)
JoinComma(parts, a, b) ==
  IF a > b THEN ""
  ELSE IF a = b THEN parts[a]
  ELSE LET m == (a + b) \div 2
       IN JoinComma(parts, a, m) \o "," \o JoinComma(parts, m + 1, b)

RECURSIVE JSONstringify(_)
JSONstringify(x) ==
  CASE x.t = "obj" ->
         "{" \o JoinComma([i \in 1..Len(x.v) |->
                             QuoteString(x.v[i][1]) \o ":"
                               \o JSONstringify(x.v[i][2])], 1, Len(x.v))
             \o "}"
    [] x.t = "arr" ->
         "[" \o JoinComma([i \in 1..Len(x.v) |-> JSONstringify(x.v[i])],
                          1, Len(x.v))
             \o "]"
    [] x.t = "str" -> QuoteString(x.v)
    [] OTHER -> x.v

\* ------------------------------------------------------------------
\* JSON.parse (recursive descent over the text s).  A parse step returns
\* [ok, val, pos]: pos is the index of the first character after the value.
\* Q is the set of positions of the double quotes of s that are not
\* escaped (preceded by an even number of backslashes).
\* ------------------------------------------------------------------
JsonWhitespace == {" ", "\t", "\n", "\r"}
ControlChars == {"\t", "\n", "\r", "\f"}

ParseFail == [ok |-> FALSE, val |-> JLit("null"), pos |-> 0]
ParseOk(val, pos) == [ok |-> TRUE, val |-> val, pos |-> pos]

RECURSIVE BackslashRun(_, _)
BackslashRun(s, j) ==
  IF j >= 1 /\ CharAt(s, j) = "\\" THEN 1 + BackslashRun(s, j - 1) ELSE 0

ClosingQuotes(s) ==
  {j \in 1..Len(s) : CharAt(s, j) = "\"" /\ BackslashRun(s, j - 1) % 2 = 0}

RECURSIVE SkipWhitespace(_, _)
SkipWhitespace(s, i) ==
  IF i <= Len(s) /\ CharAt(s, i) \in JsonWhitespace
  THEN SkipWhitespace(s, i + 1)
  ELSE i

\* end of the run of digits that starts at i (i itself when there is none)
RECURSIVE DigitRunEnd(_, _)
DigitRunEnd(s, i) ==
  IF i <= Len(s) /\ CharAt(s, i) \in Digits THEN DigitRunEnd(s, i + 1) ELSE i

HexDigits == Digits \cup {"a", "b", "c", "d", "e", "f",
                          "A", "B", "C", "D", "E", "F"}

\* The characters of a string literal between its quotes: [ok, val].
\* \b and \uXXXX are kept as written (no text of the model contains them).
RECURSIVE Unquote(_, _, _)
Unquote(s, a, b) ==
  IF a > b THEN [ok |-> TRUE, val |-> ""]
  ELSE
    LET bs == {j \in a..b : CharAt(s, j) = "\\"}
    IN IF \E j \in a..b : CharAt(s, j) \in ControlChars
       THEN [ok |-> FALSE, val |-> ""]
       ELSE IF bs = {} THEN [ok |-> TRUE, val |-> SubSeq(s, a, b)]
       ELSE
         LET j == Min(bs)
             e == IF j + 1 <= b THEN CharAt(s, j + 1) ELSE ""
             isU == /\ e = "u" /\ j + 5 <= b
                    /\ \A d \in 2..5 : CharAt(s, j + d) \in HexDigits
             simple == e \in {"\"", "\\", "/", "b", "f", "n", "r", "t"}
             dec == CASE e = "\"" -> "\""
                      [] e = "\\" -> "\\"
                      [] e = "/" -> "/"
                      [] e = "n" -> "\n"
                      [] e = "r" -> "\r"
                      [] e = "t" -> "\t"
                      [] e = "f" -> "\f"
                      [] e = "b" -> "\\b"
                      [] OTHER -> SubSeq(s, j, j + 5)
             rest == Unquote(s, IF simple THEN j + 2 ELSE j + 6, b)
         IN IF ~(simple \/ isU) THEN [ok |-> FALSE, val |-> ""]
            ELSE IF ~rest.ok THEN rest
            ELSE [ok |-> TRUE,
                  val |-> SubSeq(s, a, j - 1) \o dec \o rest.val]

\* string literal whose opening quote is at i
ParseString(s, Q, i) ==
  LET later == {j \in Q : j > i}
  IN IF later = {} THEN ParseFail
     ELSE LET j == Min(later)
              u == Unquote(s, i + 1, j - 1)
          IN IF u.ok THEN ParseOk(JStr(u.val), j + 1) ELSE ParseFail

\* number: -? (0 | [1-9][0-9]*) (. [0-9]+)? ([eE] [+-]? [0-9]+)?
ParseNumber(s, i) ==
  LET i1 == IF CharAt(s, i) = "-" THEN i + 1 ELSE i
      i2 == DigitRunEnd(s, i1)
      intOk == i2 > i1 /\ (CharAt(s, i1) = "0" => i2 = i1 + 1)
      hasFrac == i2 <= Len(s) /\ CharAt(s, i2) = "."
      i3 == IF hasFrac THEN DigitRunEnd(s, i2 + 1) ELSE i2
      fracOk == hasFrac => i3 > i2 + 1
      hasExp == i3 <= Len(s) /\ CharAt(s, i3) \in {"e", "E"}
      i4 == IF hasExp /\ i3 + 1 <= Len(s) /\ CharAt(s, i3 + 1) \in {"+", "-"}
            THEN i3 + 2 ELSE i3 + 1
      i5 == IF hasExp THEN DigitRunEnd(s, i4) ELSE i3
      expOk == hasExp => i5 > i4
  IN IF intOk /\ fracOk /\ expOk
     THEN ParseOk(JNum(SubSeq(s, i, i5 - 1)), i5)
     ELSE ParseFail

RECURSIVE ParseValue(_, _, _)
RECURSIVE ParseElements(_, _, _, _)
RECURSIVE ParseMembers(_, _, _, _)

\* the value that starts at or after i (leading whitespace skipped)
ParseValue(s, Q, i0) ==
  LET i == SkipWhitespace(s, i0)
      c == IF i <= Len(s) THEN CharAt(s, i) ELSE ""
  IN CASE c = "{" ->
            LET j == SkipWhitespace(s, i + 1)
            IN IF j <= Len(s) /\ CharAt(s, j) = "}"
               THEN ParseOk(EmptyObject, j + 1)
               ELSE ParseMembers(s, Q, j, EmptyObject)
       [] c = "[" ->
            LET j == SkipWhitespace(s, i + 1)
            IN IF j <= Len(s) /\ CharAt(s, j) = "]"
               THEN ParseOk(JArr(<<>>), j + 1)
               ELSE ParseElements(s, Q, j, <<>>)
       [] c = "\"" -> ParseString(s, Q, i)
       [] c \in Digits \cup {"-"} -> ParseNumber(s, i)
       [] c = "t" /\ i + 3 <= Len(s) /\ SubSeq(s, i, i + 3) = "true" ->
            ParseOk(JLit("true"), i + 4)
       [] c = "f" /\ i + 4 <= Len(s) /\ SubSeq(s, i, i + 4) = "false" ->
            ParseOk(JLit("false"), i + 5)
       [] c = "n" /\ i + 3 <= Len(s) /\ SubSeq(s, i, i + 3) = "null" ->
            ParseOk(JLit("null"), i + 4)
       [] OTHER -> ParseFail

\* elements of an array from position i on; acc holds the elements read
ParseElements(s, Q, i, acc) ==
  LET e == ParseValue(s, Q, i)
      j == SkipWhitespace(s, e.pos)
      c == IF j <= Len(s) THEN CharAt(s, j) ELSE ""
  IN IF ~e.ok THEN ParseFail
     ELSE IF c = "]" THEN ParseOk(JArr(Append(acc, e.val)), j + 1)
     ELSE IF c = "," THEN ParseElements(s, Q, j + 1, Append(acc, e.val))
     ELSE ParseFail

\* members of an object from position i on; a repeated key overwrites
ParseMembers(s, Q, i0, acc) ==
  LET i == SkipWhitespace(s, i0)
      k == IF i <= Len(s) /\ CharAt(s, i) = "\""
           THEN ParseString(s, Q, i) ELSE ParseFail
      colon == SkipWhitespace(s, k.pos)
      e == ParseValue(s, Q, colon + 1)
      j == SkipWhitespace(s, e.pos)
      c == IF j <= Len(s) THEN CharAt(s, j) ELSE ""
  IN IF ~k.ok THEN ParseFail
     ELSE IF ~(colon <= Len(s) /\ CharAt(s, colon) = ":") THEN ParseFail
     ELSE IF ~e.ok THEN ParseFail
     ELSE IF c = "}" THEN ParseOk(Put(acc, k.val.v, e.val), j + 1)
     ELSE IF c = "," THEN ParseMembers(s, Q, j + 1, Put(acc, k.val.v, e.val))
     ELSE ParseFail

\* The value r read from the start of s is the result when only whitespace
\* follows it.
ParseWhole(s, r) ==
  IF r.ok /\ SkipWhitespace(s, r.pos) = Len(s) + 1
  THEN [ok |-> TRUE, val |-> r.val]
  ELSE [ok |-> FALSE, val |-> JLit("null")]

\* JSON.parse(s): [ok, val]; ok = FALSE stands for the SyntaxError.
JSONparse(s) == ParseWhole(s, ParseValue(s, ClosingQuotes(s), 1))

\* try { return JSON.parse(..) } catch { .. }: the parsed value, or what the
\* catch block yields when the parse throws
TryParse(parsed, caught) == IF parsed.ok THEN parsed.val ELSE caught

\* ------------------------------------------------------------------
\* Chunked object store: pure helpers of src/js/spotify-api.js
\* ------------------------------------------------------------------
\* chunkData(jsonString, maxLength): the sequence of chunks
chunkData(jsonString, maxLength) ==
  LET n == Len(jsonString)
      count == (n + maxLength - 1) \div maxLength
  IN [c \in 1..count |->
        SubSeq(jsonString, (c - 1) * maxLength + 1,
               IF c * maxLength < n THEN c * maxLength ELSE n)]

\* getDataPlaylistName with the suffix index instead of index + 1
getDataPlaylistNameSameIndex(index) ==
  IF index = 0 THEN DATA_PLAYLIST_PREFIX
  ELSE DATA_PLAYLIST_PREFIX \o "_" \o IntToString(index)

\* getDataPlaylistName(index), index counted from 0
getDataPlaylistName(index) ==
  IF index = 0 THEN DATA_PLAYLIST_PREFIX
  ELSE DATA_PLAYLIST_PREFIX \o "_" \o IntToString(index + 1)

\* name.match(/^<DATA_PLAYLIST_PREFIX>_(\d+)$/): the digits, "" if no match
DataSuffixMatch(name) ==
  LET p == DATA_PLAYLIST_PREFIX \o "_"
      d == IF startsWith(name, p) THEN SubSeq(name, Len(p) + 1, Len(name))
           ELSE ""
  IN IF IsDigits(d) THEN d ELSE ""

isValidDataPlaylistName(name) ==
  \/ name = DATA_PLAYLIST_PREFIX
  \/ DataSuffixMatch(name) # ""

getDataPlaylistIndex(name) ==
  IF name = DATA_PLAYLIST_PREFIX THEN 0
  ELSE IF DataSuffixMatch(name) # "" THEN parseInt(DataSuffixMatch(name)) - 1
  ELSE -1

\* descriptions.filter(d => d !== undefined).join(''): descriptions is the
\* array of the slot texts, a function from the filled logical indices.
\* A property at index -1 is not an array element and is not joined.
RECURSIVE JoinDescriptions(_, _)
JoinDescriptions(descriptions, from) ==
  LET rest == {i \in DOMAIN descriptions : i >= from}
  IN IF rest = {} THEN ""
     ELSE descriptions[Min(rest)]
            \o JoinDescriptions(descriptions, Min(rest) + 1)

\* the chain of replace() calls that undoes the HTML entities
decodeEntities(jsonString) ==
  LET s1 == ReplaceAll(jsonString, "&quot;", "\"")
      s2 == ReplaceAll(s1, "&#34;", "\"")
      s3 == ReplaceAll(s2, "&amp;", "&")
      s4 == ReplaceAll(s3, "&#38;", "&")
      s5 == ReplaceAll(s4, "&lt;", "<")
      s6 == ReplaceAll(s5, "&gt;", ">")
      s7 == ReplaceAll(s6, "&#39;", "'")
  IN ReplaceAll(s7, "&apos;", "'")

\* jsonString.trim() === '' (also true of the empty string)
IsBlank(jsonString) ==
  \A i \in 1..Len(jsonString) :
    CharAt(jsonString, i) \in {" ", "\t", "\n", "\r", "\f"}

\* jsonString.indexOf('{'), 1-based; 0 when there is none
indexOfBrace(jsonString) ==
  LET S == {i \in 1..Len(jsonString) : CharAt(jsonString, i) = "{"}
  IN IF S = {} THEN 0 ELSE Min(S)

\* balancedEnd with the span taken up to the last "}" of the text
balancedEndLast(jsonString, start) ==
  LET closes == {i \in start..Len(jsonString) : CharAt(jsonString, i) = "}"}
  IN IF closes = {} THEN 0 ELSE CHOOSE i \in closes : \A j \in closes : j <= i

\* The brace-depth walk from start: the first index at which braceCount is
\* back to 0, or 0 when the walk reaches the end of the text.  braceCount
\* only changes at a brace, is 1 at start, and so first reaches 0 at a "}";
\* the count at a brace is the number of "{" minus the number of "}" from
\* start up to it.
balancedEnd(jsonString, start) ==
  LET opens == {i \in start..Len(jsonString) : CharAt(jsonString, i) = "{"}
      closes == {i \in start..Len(jsonString) : CharAt(jsonString, i) = "}"}
      braceCount(i) == Cardinality({j \in opens : j <= i})
                         - Cardinality({j \in closes : j <= i})
      zero == {i \in closes : braceCount(i) = 0}
  IN IF zero = {} THEN 0 ELSE Min(zero)

\* catch block of loadCategoriesFromSpotify: the recovery scan
recoverCategories(jsonString) ==
  LET start == indexOfBrace(jsonString)
      end == balancedEnd(jsonString, start)
      validJson == SubSeq(jsonString, start, end)
  IN IF start = 0 THEN Corrupted
     ELSE IF end = 0 THEN Corrupted
     ELSE TryParse(JSONparse(validJson), Corrupted)

\* parseCategories without the test of lines 271-274
parseCategoriesUntested(jsonString) ==
  TryParse(JSONparse(jsonString), recoverCategories(jsonString))

\* what loadCategoriesFromSpotify returns for the unescaped text
parseCategories(jsonString) ==
  IF IsBlank(jsonString) THEN EmptyObject
  ELSE TryParse(JSONparse(jsonString), recoverCategories(jsonString))

\* ------------------------------------------------------------------
\* Rate-limited transport
\* ------------------------------------------------------------------
\* A response is [status, retryAfter]: retryAfter is the Retry-After header,
\* "" when the header is absent.
Response(status, retryAfter) == [status |-> status, retryAfter |-> retryAfter]

\* parseInt(response.headers.get('Retry-After') || '1', 10)
retryAfterSeconds(response) ==
  IF response.retryAfter = "" THEN 1 ELSE parseInt(response.retryAfter)

\* fetchLoop with one attempt fewer
RECURSIVE fetchLoopFewer(_, _, _, _, _)
fetchLoopFewer(url, transport, attempt, requests, waited) ==
  IF attempt < retries - 1
  THEN LET response == transport[Len(requests) + 1]
       IN IF response.status = 429
          THEN fetchLoopFewer(url, transport, attempt + 1,
                              Append(requests, url),
                              waited + retryAfterSeconds(response))
          ELSE [thrown |-> FALSE, response |-> response,
                requests |-> Append(requests, url), waited |-> waited]
  ELSE [thrown |-> TRUE, response |-> Response(0, ""),
        requests |-> requests, waited |-> waited]

\* fetchLoop with one attempt more
RECURSIVE fetchLoopMore(_, _, _, _, _)
fetchLoopMore(url, transport, attempt, requests, waited) ==
  IF attempt <= retries
  THEN LET response == transport[Len(requests) + 1]
       IN IF response.status = 429
          THEN fetchLoopMore(url, transport, attempt + 1,
                             Append(requests, url),
                             waited + retryAfterSeconds(response))
          ELSE [thrown |-> FALSE, response |-> response,
                requests |-> Append(requests, url), waited |-> waited]
  ELSE [thrown |-> TRUE, response |-> Response(0, ""),
        requests |-> requests, waited |-> waited]

\* fetchLoop that also retries a server error
RECURSIVE fetchLoopRetryErrors(_, _, _, _, _)
fetchLoopRetryErrors(url, transport, attempt, requests, waited) ==
  IF attempt < retries
  THEN LET response == transport[Len(requests) + 1]
       IN IF response.status = 429 \/ response.status >= 500
          THEN fetchLoopRetryErrors(url, transport, attempt + 1,
                                    Append(requests, url),
                                    waited + retryAfterSeconds(response))
          ELSE [thrown |-> FALSE, response |-> response,
                requests |-> Append(requests, url), waited |-> waited]
  ELSE [thrown |-> TRUE, response |-> Response(0, ""),
        requests |-> requests, waited |-> waited]

\* The loop of rateLimitedFetch.  transport[n] is the response the remote
\* gives to the n-th request of this call; requests is the sequence of the
\* requests issued so far, waited the seconds spent in delay().
RECURSIVE fetchLoop(_, _, _, _, _)
fetchLoop(url, transport, attempt, requests, waited) ==
  IF attempt < retries
  THEN LET response == transport[Len(requests) + 1]
       IN IF response.status = 429
          THEN fetchLoop(url, transport, attempt + 1, Append(requests, url),
                         waited + retryAfterSeconds(response))
          ELSE [thrown |-> FALSE, response |-> response,
                requests |-> Append(requests, url), waited |-> waited]
  ELSE [thrown |-> TRUE, response |-> Response(0, ""),
        requests |-> requests, waited |-> waited]

\* rateLimitedFetch(url, options): what the call returns or throws, with the
\* requests it issued
rateLimitedFetch(url, transport) == fetchLoop(url, transport, 0, <<>>, 0)

\* ------------------------------------------------------------------
\* State
\* ------------------------------------------------------------------
VARIABLES
  playlists,     \* remote: the playlists of the user's library, in listing
                 \* order; each [id, owner, name, description, public, tracks]
  nextId,        \* remote: identifier of the next playlist created
  htmlEscapes,   \* remote: it returns descriptions HTML-entity-escaped
  following,     \* remote: identifiers of the followed artists
  tasks,         \* the asynchronous calls in flight, one record per call
  state,         \* the React state of SpotifyOrganizer
  faults,        \* number of requests answered with a failure so far
  started,       \* number of calls and user actions started so far
  hist,          \* history of the completed store operations
  descriptions,  \* loadCategoriesFromSpotify: the array of slot texts
  jsonString,    \* loadCategoriesFromSpotify: the reconstructed text
  loadResult,    \* loadCategoriesFromSpotify: the returned value
  loadPc,        \* loadCategoriesFromSpotify: position in the decoding
  call,          \* one call of rateLimitedFetch with its outcome
  listing,       \* one paginated listing: the remote's pages and the
                 \* collecting loop
  naming,        \* one playlist name put through the data-slot filter
  session        \* config.js and localStorage: ALLOWED_USER_IDS, the
                 \* stored credential

remoteVars == <<playlists, nextId, htmlEscapes, following>>
appVars == <<tasks, state, faults, started, hist>>
codecVars == <<descriptions, jsonString, loadResult, loadPc>>
vars == <<playlists, nextId, htmlEscapes, following, tasks, state, faults,
          started, hist, descriptions, jsonString, loadResult, loadPc, call,
          listing, naming, session>>

\* no value yet (JavaScript undefined)
Undefined == JLit("undefined")

\* ------------------------------------------------------------------
\* Specification SpecFetch: one call of rateLimitedFetch against every
\* transport script
\* ------------------------------------------------------------------
Responses ==
  {Response(st, "") : st \in {200, 401, 404, 429, 500}}
    \cup {Response(429, "2")}
Urls == {"/v1/me/playlists", "/v1/playlists/7"}

\* the remote's answers to the first, second, ... request of the call; one
\* more than the retry ceiling, so that a fourth request would be answered
Transports == [1..(retries + 1) -> Responses]

CallIdle == [pc |-> "idle", url |-> "", transport |-> <<>>,
             thrown |-> FALSE, response |-> Response(0, ""),
             requests |-> <<>>, waited |-> 0]

\* no name under test
NoNaming == [pc |-> "idle", name |-> "", valid |-> FALSE, index |-> 0,
             read |-> FALSE]

\* part_001 lines 10-12: ALLOWED_USER_IDS is empty; a credential is stored
OpenSession ==
  [allowed |-> <<>>, stored |-> TRUE, accessToken |-> TRUE, denied |-> FALSE,
   mounted |-> TRUE, added |-> {}, removed |-> {}]

\* no listing in progress
NoListing == [name |-> "none", pc |-> "idle", chain |-> <<>>, url |-> "",
              results |-> <<>>, requests |-> <<>>, clean |-> TRUE]

\* the call runs to its return or throw
FetchCompletes ==
  /\ call.pc = "calling"
  /\ LET r == rateLimitedFetch(call.url, call.transport)
     IN call' = [call EXCEPT !.pc = IF r.thrown THEN "thrown" ELSE "returned",
                             !.thrown = r.thrown,
                             !.response = r.response,
                             !.requests = r.requests,
                             !.waited = r.waited]
  /\ UNCHANGED <<remoteVars, appVars, codecVars, listing, naming, session>>

\* ------------------------------------------------------------------
\* Specification SpecCodec: the decoding half of
\* loadCategoriesFromSpotify against a set of slot texts
\* ------------------------------------------------------------------
CodecBodies ==
  { "{\"Rock\":[\"a\",\"b\"]}",
    "{\"a}\":[\"x\"]}",
    "{\"a{\":[\"x\"]}",
    "{\"R\":{\"n\":[\"a\"]}}",
    "{\"a\\\"b\":[\"c\"]}",
    "{&quot;Q&amp;A&quot;:[&#34;a&#39;s&#34;]}",
    "{\"&lt;b&gt;\":[\"&#38;&apos;\"]}",
    "{\"a&amp;lt;b\":[\"x\"]}",
    "{\"x\":[\"a\"]",
    "{\"a\":1}",
    "{}",
    "[]",
    "null",
    "not json at all ",
    "" }
CodecTexts ==
  {p \o b \o x : p \in {"", " ", "x", "{"}, b \in CodecBodies,
                 x \in {"", "garbage", "}", " ", "{"}}

\* position after which a text is cut into two slots (0: one slot)
CodecCuts == {0, 4}

\* the descriptions array for a text cut after `cut` characters
SlotsOf(text, cut) ==
  IF cut = 0 \/ cut >= Len(text) THEN (0 :> text)
  ELSE (0 :> SubSeq(text, 1, cut)) @@ (1 :> SubSeq(text, cut + 1, Len(text)))

\* lines 254-265: join the slots and undo the entities
LoadReconstruct ==
  /\ loadPc = "join"
  /\ jsonString' = decodeEntities(JoinDescriptions(descriptions, 0))
  /\ loadPc' = "parse"
  /\ UNCHANGED <<descriptions, loadResult, remoteVars, appVars, call, listing, naming, session>>

\* lines 271-274: nothing stored
LoadBlank ==
  /\ loadPc = "parse"
  /\ IsBlank(jsonString)
  /\ loadResult' = parseCategories(jsonString)
  /\ loadPc' = "returned"
  /\ UNCHANGED <<descriptions, jsonString, remoteVars, appVars, call, listing, naming, session>>

\* lines 276-279: the strict parse succeeds
LoadStrict ==
  /\ loadPc = "parse"
  /\ ~IsBlank(jsonString)
  /\ JSONparse(jsonString).ok
  /\ loadResult' = parseCategories(jsonString)
  /\ loadPc' = "returned"
  /\ UNCHANGED <<descriptions, jsonString, remoteVars, appVars, call, listing, naming, session>>

\* lines 280-311: the strict parse throws, the catch block recovers or
\* returns the sentinel
LoadRecover ==
  /\ loadPc = "parse"
  /\ ~IsBlank(jsonString)
  /\ ~JSONparse(jsonString).ok
  /\ loadResult' = parseCategories(jsonString)
  /\ loadPc' = "returned"
  /\ UNCHANGED <<descriptions, jsonString, remoteVars, appVars, call, listing, naming, session>>

\* ------------------------------------------------------------------
\* The remote service
\* ------------------------------------------------------------------
Me == "me"
Other == "other"

Playlist(id, owner, name, description, public, tracks) ==
  [id |-> id, owner |-> owner, name |-> name, description |-> description,
   public |-> public, tracks |-> tracks]

Exists(pl, id) == \E k \in 1..Len(pl) : pl[k].id = id

\* PUT /playlists/{id}: the description is replaced
RemoteUpdate(pl, id, description) ==
  [k \in 1..Len(pl) |->
     IF pl[k].id = id THEN [pl[k] EXCEPT !.description = description]
     ELSE pl[k]]

\* POST /users/{userId}/playlists
RemoteCreate(pl, id, owner, name, description, public) ==
  Append(pl, Playlist(id, owner, name, description, public, <<>>))

\* DELETE /playlists/{id}/followers
RemoteDelete(pl, id) == SelectSeq(pl, LAMBDA p : p.id # id)

\* The character entities the remote writes when it escapes a description.
EscapeChar(c) ==
  CASE c = "&" -> "&amp;"
    [] c = "\"" -> "&quot;"
    [] c = "<" -> "&lt;"
    [] c = ">" -> "&gt;"
    [] c = "'" -> "&#39;"
    [] OTHER -> c

htmlEscape(text) ==
  Flatten([i \in 1..Len(text) |-> EscapeChar(CharAt(text, i))], 1, Len(text))

\* description field of GET /playlists/{id}
RemoteDescription(pl, id, escapes) ==
  LET p == pl[CHOOSE k \in 1..Len(pl) : pl[k].id = id]
  IN IF escapes THEN htmlEscape(p.description) ELSE p.description

\* How the remote answers one call of rateLimitedFetch: with success, with
\* an error status, or with 429 on every attempt.
Answers == {"ok", "error", "throttled"}

TransportFor(answer) ==
  [n \in 1..(retries + 1) |->
     CASE answer = "ok" -> Response(200, "")
       [] answer = "error" -> Response(500, "")
       [] OTHER -> Response(429, "")]

Fetch(answer) == rateLimitedFetch("", TransportFor(answer))

\* ------------------------------------------------------------------
\* saveCategoriesToSpotify as a sequence of requests.  A call in flight is
\* a record `op`; op.pc names the request that is awaited.  A step returns
\* [op, status, value, playlists, nextId]: status is "running", "returned"
\* or "thrown".
\* ------------------------------------------------------------------
Running(op, pl, nid) ==
  [op |-> op, status |-> "running", value |-> Undefined,
   playlists |-> pl, nextId |-> nid]
Returned(op, value, pl, nid) ==
  [op |-> op, status |-> "returned", value |-> value,
   playlists |-> pl, nextId |-> nid]
Thrown(op, pl, nid) ==
  [op |-> [op EXCEPT !.clean = FALSE], status |-> "thrown",
   value |-> Undefined, playlists |-> pl, nextId |-> nid]

NoOp == [name |-> "none", pc |-> "none", clean |-> TRUE]

\* getUserPlaylists: the items collected from the listing; a response with
\* an error status has no items
getUserPlaylists(response, pl) ==
  IF response.status = 200 THEN pl ELSE <<>>

\* dataPlaylists.find(p => p.name === playlistName): index of the first
\* match, 0 when there is none
FindByName(list, name) ==
  LET S == {k \in 1..Len(list) : list[k].name = name}
  IN IF S = {} THEN 0 ELSE Min(S)

\* lines 186-190: the call serializes, chunks and requests the listing
saveCategoriesToSpotify(userId, categories) ==
  [name |-> "save", pc |-> "list", userId |-> userId,
   categories |-> categories,
   chunks |-> chunkData(JSONstringify(categories), DESCRIPTION_MAX_LENGTH),
   dataPlaylists |-> <<>>, i |-> 0, before |-> <<>>,
   written |-> <<>>, deleted |-> {}, clean |-> TRUE, changed |-> FALSE]

\* lines 191-193: the owner's playlists whose name starts with the data
\* prefix.  The sort by name is stable and the list is only used through
\* find-by-name and length, so the listing order is kept.
saveDataPlaylists(allPlaylists, userId) ==
  SelectSeq(allPlaylists,
            LAMBDA p : startsWith(p.name, DATA_PLAYLIST_PREFIX)
                         /\ p.owner = userId)

\* lines 210-217: the next surplus playlist to delete, from loop index
\* `from` on; the call returns when the loop ends
saveNextDelete(op, from, pl, nid) ==
  LET S == {j \in from..(Len(op.dataPlaylists) - 1) :
              FindByName(op.dataPlaylists, getDataPlaylistName(j)) # 0}
  IN IF S = {} THEN Returned(op, Undefined, pl, nid)
     ELSE Running([op EXCEPT !.pc = "delete", !.i = Min(S)], pl, nid)

\* the listing is answered
saveAfterList(op, r, pl, nid) ==
  IF r.thrown THEN Thrown(op, pl, nid)
  ELSE Running([op EXCEPT
                  !.pc = "write", !.i = 0,
                  !.clean = (r.response.status = 200),
                  !.before = pl,
                  !.dataPlaylists =
                     saveDataPlaylists(getUserPlaylists(r.response, pl),
                                       op.userId)],
               pl, nid)

\* lines 196-207: the write of chunk i is answered
saveAfterWrite(op, r, pl, nid) ==
  LET playlistName == getDataPlaylistName(op.i)
      found == FindByName(op.dataPlaylists, playlistName)
      ok == ~r.thrown /\ r.response.status = 200
      id == IF found # 0 THEN op.dataPlaylists[found].id ELSE nid
      pl2 == IF ~ok THEN pl
             ELSE IF found # 0 THEN RemoteUpdate(pl, id, op.chunks[op.i + 1])
             ELSE RemoteCreate(pl, nid, op.userId, playlistName,
                               op.chunks[op.i + 1], FALSE)
      nid2 == IF ok /\ found = 0 THEN nid + 1 ELSE nid
      op2 == [op EXCEPT !.written = IF ok THEN Append(@, id) ELSE @,
                        !.clean = @ /\ ok,
                        !.changed = @ \/ ok,
                        !.i = op.i + 1]
  IN IF r.thrown THEN Thrown(op, pl, nid)
     ELSE IF op.i + 1 < Len(op.chunks)
     THEN Running(op2, pl2, nid2)
     ELSE saveNextDelete(op2, Len(op.chunks), pl2, nid2)

\* the delete of surplus playlist i is answered
saveAfterDelete(op, r, pl, nid) ==
  LET found == FindByName(op.dataPlaylists, getDataPlaylistName(op.i))
      id == op.dataPlaylists[found].id
      ok == ~r.thrown /\ r.response.status = 200
      pl2 == IF ok THEN RemoteDelete(pl, id) ELSE pl
      op2 == [op EXCEPT !.deleted = IF ok THEN @ \cup {id} ELSE @,
                        !.clean = @ /\ ok,
                        !.changed = @ \/ ok]
  IN IF r.thrown THEN Thrown(op, pl, nid)
     ELSE saveNextDelete(op2, op.i + 1, pl2, nid)

\* the identifier the awaited write or delete of a save addresses, 0 for
\* a create
saveTarget(op) ==
  LET found == FindByName(op.dataPlaylists, getDataPlaylistName(op.i))
  IN IF found = 0 THEN 0 ELSE op.dataPlaylists[found].id

\* ------------------------------------------------------------------
\* loadCategoriesFromSpotify as a sequence of requests
\* ------------------------------------------------------------------
\* Array.prototype.sort by getDataPlaylistIndex (stable): p is placed
\* after the elements whose index is not larger
RECURSIVE SortByIndex(_)
SortByIndex(list) ==
  IF Len(list) <= 1 THEN list
  ELSE LET p == list[Len(list)]
           sorted == SortByIndex(SubSeq(list, 1, Len(list) - 1))
           n == Cardinality({k \in 1..Len(sorted) :
                               getDataPlaylistIndex(sorted[k].name)
                                 <= getDataPlaylistIndex(p.name)})
       IN SubSeq(sorted, 1, n) \o <<p>> \o SubSeq(sorted, n + 1, Len(sorted))

\* line 229: the call requests the listing
loadCategoriesFromSpotify(userId) ==
  [name |-> "load", pc |-> "list", userId |-> userId,
   dataPlaylistRefs |-> <<>>, k |-> 1, descriptions |-> <<>>,
   jsonString |-> "", fetched |-> <<>>, clean |-> TRUE]

\* loadDataPlaylistRefs with the prefix filter of the save path
loadDataPlaylistRefsByPrefix(allPlaylists, userId) ==
  SortByIndex(SelectSeq(allPlaylists,
                        LAMBDA p : p.owner = userId
                                     /\ startsWith(p.name,
                                                   DATA_PLAYLIST_PREFIX)))

\* lines 232-234
loadDataPlaylistRefs(allPlaylists, userId) ==
  SortByIndex(SelectSeq(allPlaylists,
                        LAMBDA p : p.owner = userId
                                     /\ isValidDataPlaylistName(p.name)))

\* lines 232-240: the listing is answered
loadAfterList(op, r, pl, nid) ==
  LET refs == loadDataPlaylistRefs(getUserPlaylists(r.response, pl),
                                   op.userId)
      op2 == [op EXCEPT !.dataPlaylistRefs = refs,
                        !.clean = (r.response.status = 200)]
  IN IF r.thrown THEN Thrown(op, pl, nid)
     ELSE IF Len(refs) = 0 THEN Returned(op2, EmptyObject, pl, nid)
     ELSE Running([op2 EXCEPT !.pc = "detail", !.k = 1], pl, nid)

\* loadAfterDetail with the description of the listing in place of the
\* description of the detail response
loadAfterDetailListingText(op, r, pl, nid, escapes) ==
  LET playlistRef == op.dataPlaylistRefs[op.k]
      index == getDataPlaylistIndex(playlistRef.name)
      ok == ~r.thrown /\ r.response.status = 200
      description == IF ok THEN playlistRef.description ELSE ""
      filled == (index :> description) @@ op.descriptions
      text == decodeEntities(JoinDescriptions(filled, 0))
      op2 == [op EXCEPT !.descriptions = filled,
                        !.fetched = Append(@, playlistRef.id),
                        !.clean = @ /\ ok,
                        !.k = op.k + 1]
  IN IF r.thrown THEN Thrown(op, pl, nid)
     ELSE IF op.k < Len(op.dataPlaylistRefs) THEN Running(op2, pl, nid)
     ELSE Returned([op2 EXCEPT !.jsonString = text],
                   parseCategories(text), pl, nid)

\* lines 245-312: the detail request of dataPlaylistRefs[k] is answered;
\* after the last one the text is reconstructed and parsed
loadAfterDetail(op, r, pl, nid, escapes) ==
  LET playlistRef == op.dataPlaylistRefs[op.k]
      index == getDataPlaylistIndex(playlistRef.name)
      ok == ~r.thrown /\ r.response.status = 200
      description == IF ok THEN RemoteDescription(pl, playlistRef.id, escapes)
                     ELSE ""
      filled == (index :> description) @@ op.descriptions
      text == decodeEntities(JoinDescriptions(filled, 0))
      op2 == [op EXCEPT !.descriptions = filled,
                        !.fetched = Append(@, playlistRef.id),
                        !.clean = @ /\ ok,
                        !.k = op.k + 1]
  IN IF r.thrown THEN Thrown(op, pl, nid)
     ELSE IF op.k < Len(op.dataPlaylistRefs) THEN Running(op2, pl, nid)
     ELSE Returned([op2 EXCEPT !.jsonString = text],
                   parseCategories(text), pl, nid)

\* ------------------------------------------------------------------
\* History of the store operations (for the properties below)
\* ------------------------------------------------------------------
NoSave == [kind |-> "none", categories |-> EmptyObject, count |-> 0,
           written |-> <<>>, deleted |-> {}, dataPlaylists |-> <<>>,
           before |-> <<>>]
NoLoad == [kind |-> "none", value |-> Undefined, jsonString |-> "",
           fetched |-> <<>>]
\* a finished migrateFromOldFormat, resetAllData, deleteCategoryPlaylist
NoDetect == [kind |-> "none", value |-> Undefined, library |-> <<>>]
NoReset == [kind |-> "none", value |-> Undefined, listed |-> <<>>,
            requested |-> <<>>]
NoDelete == [kind |-> "none", id |-> 0, requests |-> 0, before |-> <<>>,
             after |-> <<>>]
\* a completed loadData: the mapping it loaded (line 111), the mapping it
\* set (line 163) and the mapping of the last save it awaited
NoLoadData == [done |-> FALSE, loaded |-> [t |-> "obj", v |-> <<>>],
               categories |-> [t |-> "obj", v |-> <<>>],
               written |-> [t |-> "undefined"]]
NoHistory == [last |-> NoSave, prev |-> NoSave, load |-> NoLoad,
              detect |-> NoDetect, detectPrev |-> NoDetect,
              reset |-> NoReset, del |-> NoDelete, delPrev |-> NoDelete,
              sentinel |-> FALSE, aborted |-> FALSE,
              loadData |-> NoLoadData]

\* kind of a finished save: "clean" (returned, every request succeeded),
\* "unclean" (returned although a request was answered with an error),
\* "partial" (threw after it had changed the store), "failed" (threw before)
SaveInfo(op, status) ==
  [kind |-> IF status = "returned"
            THEN (IF op.clean THEN "clean" ELSE "unclean")
            ELSE (IF op.changed THEN "partial" ELSE "failed"),
   categories |-> op.categories, count |-> Len(op.chunks),
   written |-> op.written, deleted |-> op.deleted,
   dataPlaylists |-> op.dataPlaylists, before |-> op.before]

LoadInfo(op, status, value) ==
  [kind |-> IF status = "thrown" THEN "thrown"
            ELSE IF op.clean THEN "clean" ELSE "unclean",
   value |-> value, jsonString |-> op.jsonString, fetched |-> op.fetched]

\* kind of a finished call that is no save: "thrown", "clean" (returned,
\* every request answered with success) or "unclean"
CallKind(op, status) ==
  IF status = "thrown" THEN "thrown"
  ELSE IF op.clean THEN "clean" ELSE "unclean"

Record(h, r) ==
  CASE r.op.name = "save" ->
         [h EXCEPT !.last = SaveInfo(r.op, r.status), !.prev = h.last,
                   !.load = NoLoad,
                   !.aborted = @ \/ r.status = "thrown"]
    [] r.op.name = "load" ->
         [h EXCEPT !.load = LoadInfo(r.op, r.status, r.value),
                   !.sentinel = (r.status # "thrown" /\ r.value = Corrupted)]
    [] r.op.name = "migrate" ->
         [h EXCEPT !.detect = [kind |-> CallKind(r.op, r.status),
                               value |-> r.value, library |-> r.playlists],
                   !.detectPrev = h.detect]
    [] r.op.name = "reset" ->
         [h EXCEPT !.reset = [kind |-> CallKind(r.op, r.status),
                              value |-> r.value, listed |-> r.op.listed,
                              requested |-> r.op.requested],
                   !.last = NoSave, !.prev = NoSave, !.load = NoLoad]
    [] r.op.name = "delete" ->
         [h EXCEPT !.del = [kind |-> CallKind(r.op, r.status),
                            id |-> r.op.id, requests |-> 1,
                            before |-> r.op.before, after |-> r.playlists],
                   !.delPrev = h.del]
    [] OTHER -> h

\* ------------------------------------------------------------------
\* The other store calls of spotify-api.js, each a sequence of requests
\* ------------------------------------------------------------------
\* lines 129-134: the POST is awaited
createCategoryPlaylist(userId, categoryName) ==
  [name |-> "create", pc |-> "create", userId |-> userId,
   categoryName |-> categoryName, clean |-> TRUE]

\* createAfter with a public playlist
createAfterPublic(op, r, pl, nid) ==
  IF r.thrown THEN Thrown(op, pl, nid)
  ELSE IF r.response.status = 200
  THEN Returned(op, nid,
                RemoteCreate(pl, nid, op.userId,
                             CATEGORY_PREFIX \o op.categoryName, "", TRUE),
                nid + 1)
  ELSE Returned([op EXCEPT !.clean = FALSE], 0, pl, nid)

\* lines 95-105: the POST is answered; the call returns playlist.id, which
\* is undefined (0) when the body is an error object
createAfter(op, r, pl, nid) ==
  LET name == CATEGORY_PREFIX \o op.categoryName
      description == "Artists categorized as \"" \o op.categoryName
                       \o "\" - managed by Artist Organizer"
  IN IF r.thrown THEN Thrown(op, pl, nid)
     ELSE IF r.response.status = 200
     THEN Returned(op, nid,
                   RemoteCreate(pl, nid, op.userId, name, description,
                                FALSE),
                   nid + 1)
     ELSE Returned([op EXCEPT !.clean = FALSE], 0, pl, nid)

\* lines 362-367: the first delete is awaited
deleteOldPlaylists(list) ==
  [name |-> "deleteOld", pc |-> "delete", list |-> list, k |-> 1,
   clean |-> TRUE]

\* lines 363-366: the delete of list[k] is answered
deleteOldAfter(op, r, pl, nid) ==
  LET ok == ~r.thrown /\ r.response.status = 200
      pl2 == IF ok THEN RemoteDelete(pl, op.list[op.k].id) ELSE pl
      op2 == [op EXCEPT !.k = @ + 1, !.clean = @ /\ ok]
  IN IF r.thrown THEN Thrown(op, pl, nid)
     ELSE IF op.k < Len(op.list) THEN Running(op2, pl2, nid)
     ELSE Returned(op2, Undefined, pl2, nid)

\* lines 60-66: the first page is awaited
getFollowedArtists ==
  [name |-> "artists", pc |-> "page", clean |-> TRUE]

\* lines 69-81: the page is answered (the followed artists fit one page);
\* a body without data.artists contributes nothing
artistsAfter(op, r, pl, nid, followed) ==
  IF r.thrown THEN Thrown(op, pl, nid)
  ELSE IF r.response.status = 200 THEN Returned(op, followed, pl, nid)
  ELSE Returned([op EXCEPT !.clean = FALSE], <<>>, pl, nid)

\* line 142: the listing is awaited
getCategoryPlaylists(userId) ==
  [name |-> "categoryPlaylists", pc |-> "list", userId |-> userId,
   clean |-> TRUE]

\* lines 144-150: categoryPlaylists[categoryName] = p.id over the first n
\* playlists of the filtered listing
RECURSIVE collectCategoryPlaylists(_, _)
collectCategoryPlaylists(list, n) ==
  IF n = 0 THEN EmptyObject
  ELSE Put(collectCategoryPlaylists(list, n - 1),
           SubSeq(list[n].name, Len(CATEGORY_PREFIX) + 1, Len(list[n].name)),
           list[n].id)

\* lines 142-152: the listing is answered
categoryPlaylistsAfter(op, r, pl, nid) ==
  LET mine == SelectSeq(getUserPlaylists(r.response, pl),
                        LAMBDA p : startsWith(p.name, CATEGORY_PREFIX)
                                     /\ p.owner = op.userId)
  IN IF r.thrown THEN Thrown(op, pl, nid)
     ELSE Returned([op EXCEPT !.clean = (r.response.status = 200)],
                   collectCategoryPlaylists(mine, Len(mine)), pl, nid)

\* [...new Set(ids)]: the first occurrence of each
RECURSIVE Unique(_)
Unique(s) ==
  IF Len(s) = 0 THEN s
  ELSE LET u == Unique(SubSeq(s, 1, Len(s) - 1))
       IN IF \E k \in 1..Len(u) : u[k] = s[Len(s)] THEN u
          ELSE Append(u, s[Len(s)])

\* lines 335-357: the categories read from the tracks of the first n old
\* playlists; tracks[k] is the first artist of the k-th track
RECURSIVE migrateCategories(_, _)
migrateCategories(oldPlaylists, n) ==
  IF n = 0 THEN EmptyObject
  ELSE LET playlist == oldPlaylists[n]
           categoryName == SubSeq(playlist.name, Len(OLD_PREFIX) + 1,
                                  Len(playlist.name))
           artistIds == Unique(playlist.tracks)
           categories == migrateCategories(oldPlaylists, n - 1)
       IN IF Len(artistIds) > 0
          THEN Put(categories, categoryName,
                   JArr([k \in 1..Len(artistIds) |-> JStr(artistIds[k])]))
          ELSE categories

\* lines 319-360, every request answered with success: null when there is
\* no old playlist
migrateFromOldFormat(allPlaylists, userId) ==
  LET oldPlaylists ==
        SelectSeq(allPlaylists,
                  LAMBDA p : startsWith(p.name, OLD_PREFIX)
                               /\ ~startsWith(p.name, CATEGORY_PREFIX)
                               /\ p.owner = userId)
  IN IF Len(oldPlaylists) = 0 THEN JLit("null")
     ELSE [categories |-> migrateCategories(oldPlaylists, Len(oldPlaylists)),
           oldPlaylists |-> oldPlaylists]

\* line 320: migrateFromOldFormat as a sequence of requests; the listing
\* is awaited.  tracks[k] is what the track request of oldPlaylists[k]
\* has returned.
migrateCall(userId) ==
  [name |-> "migrate", pc |-> "list", userId |-> userId,
   oldPlaylists |-> <<>>, tracks |-> <<>>, clean |-> TRUE]

\* the answer of migrateFromOldFormat once every track list is read
migrateResult(op, tracks) ==
  LET read == [k \in 1..Len(op.oldPlaylists) |->
                 [op.oldPlaylists[k] EXCEPT !.tracks = tracks[k]]]
  IN [categories |-> migrateCategories(read, Len(read)),
      oldPlaylists |-> op.oldPlaylists]

\* migrateAfterList with the category playlists not excluded
migrateAfterListAnyPrefix(op, r, pl, nid) ==
  LET oldPlaylists ==
        SelectSeq(getUserPlaylists(r.response, pl),
                  LAMBDA p : startsWith(p.name, OLD_PREFIX)
                               /\ p.owner = op.userId)
      op2 == [op EXCEPT !.oldPlaylists = oldPlaylists,
                        !.clean = (r.response.status = 200)]
  IN IF r.thrown THEN Thrown(op, pl, nid)
     ELSE IF Len(oldPlaylists) = 0 THEN Returned(op2, JLit("null"), pl, nid)
     ELSE Running([op2 EXCEPT !.pc = "tracks"], pl, nid)

\* lines 320-332: the listing is answered
migrateAfterList(op, r, pl, nid) ==
  LET oldPlaylists ==
        SelectSeq(getUserPlaylists(r.response, pl),
                  LAMBDA p : startsWith(p.name, OLD_PREFIX)
                               /\ ~startsWith(p.name, CATEGORY_PREFIX)
                               /\ p.owner = op.userId)
      op2 == [op EXCEPT !.oldPlaylists = oldPlaylists,
                        !.clean = (r.response.status = 200)]
  IN IF r.thrown THEN Thrown(op, pl, nid)
     ELSE IF Len(oldPlaylists) = 0 THEN Returned(op2, JLit("null"), pl, nid)
     ELSE Running([op2 EXCEPT !.pc = "tracks"], pl, nid)

\* migrateAfterTracks that removes the old playlist it has read
migrateAfterTracksRemoving(op, r, pl, nid) ==
  LET playlist == op.oldPlaylists[Len(op.tracks) + 1]
      ok == ~r.thrown /\ r.response.status = 200
      tracks == Append(op.tracks,
                       IF ok
                       THEN pl[CHOOSE k \in 1..Len(pl) :
                                 pl[k].id = playlist.id].tracks
                       ELSE <<>>)
      op2 == [op EXCEPT !.tracks = tracks, !.clean = @ /\ ok]
  IN IF r.thrown THEN Thrown(op, pl, nid)
     ELSE IF Len(tracks) < Len(op.oldPlaylists)
     THEN Running(op2, RemoteDelete(pl, playlist.id), nid)
     ELSE Returned(op2, migrateResult(op, tracks),
                   RemoteDelete(pl, playlist.id), nid)

\* lines 337-359: the track request of the next old playlist is answered
\* (the tracks of a playlist fit one page); a body without items
\* contributes no track
migrateAfterTracks(op, r, pl, nid) ==
  LET playlist == op.oldPlaylists[Len(op.tracks) + 1]
      ok == ~r.thrown /\ r.response.status = 200
      tracks == Append(op.tracks,
                       IF ok
                       THEN pl[CHOOSE k \in 1..Len(pl) :
                                 pl[k].id = playlist.id].tracks
                       ELSE <<>>)
      op2 == [op EXCEPT !.tracks = tracks, !.clean = @ /\ ok]
  IN IF r.thrown THEN Thrown(op, pl, nid)
     ELSE IF Len(tracks) < Len(op.oldPlaylists) THEN Running(op2, pl, nid)
     ELSE Returned(op2, migrateResult(op, tracks), pl, nid)

\* line 371: resetAllData as a sequence of requests; the listing is
\* awaited.  listed holds the data playlists followed by the category
\* playlists, requested the identifiers of the deletes issued.
resetAllData(userId) ==
  [name |-> "reset", pc |-> "list", userId |-> userId,
   deletedData |-> 0, deletedCategories |-> 0,
   listed |-> <<>>, requested |-> <<>>, clean |-> TRUE]

\* the counts resetAllData returns (line 395)
resetResult(op) ==
  [deletedData |-> op.deletedData, deletedCategories |-> op.deletedCategories]

\* resetAfterList with the category playlists deleted first
resetAfterListCategoriesFirst(op, r, pl, nid) ==
  LET allPlaylists == getUserPlaylists(r.response, pl)
      dataPlaylists ==
        SelectSeq(allPlaylists,
                  LAMBDA p : startsWith(p.name, DATA_PLAYLIST_PREFIX)
                               /\ p.owner = op.userId)
      categoryPlaylists ==
        SelectSeq(allPlaylists,
                  LAMBDA p : startsWith(p.name, CATEGORY_PREFIX)
                               /\ p.owner = op.userId)
      op2 == [op EXCEPT !.deletedData = Len(dataPlaylists),
                        !.deletedCategories = Len(categoryPlaylists),
                        !.listed = categoryPlaylists \o dataPlaylists,
                        !.clean = (r.response.status = 200)]
  IN IF r.thrown THEN Thrown(op, pl, nid)
     ELSE IF Len(op2.listed) = 0 THEN Returned(op2, resetResult(op2), pl, nid)
     ELSE Running([op2 EXCEPT !.pc = "delete"], pl, nid)

\* resetAfterList without the owner test of the two filters
resetAfterListAnyOwner(op, r, pl, nid) ==
  LET allPlaylists == getUserPlaylists(r.response, pl)
      dataPlaylists ==
        SelectSeq(allPlaylists,
                  LAMBDA p : startsWith(p.name, DATA_PLAYLIST_PREFIX))
      categoryPlaylists ==
        SelectSeq(allPlaylists,
                  LAMBDA p : startsWith(p.name, CATEGORY_PREFIX))
      op2 == [op EXCEPT !.deletedData = Len(dataPlaylists),
                        !.deletedCategories = Len(categoryPlaylists),
                        !.listed = dataPlaylists \o categoryPlaylists,
                        !.clean = (r.response.status = 200)]
  IN IF r.thrown THEN Thrown(op, pl, nid)
     ELSE IF Len(op2.listed) = 0 THEN Returned(op2, resetResult(op2), pl, nid)
     ELSE Running([op2 EXCEPT !.pc = "delete"], pl, nid)

\* lines 371-387: the listing is answered; both filters read the same
\* listing
resetAfterList(op, r, pl, nid) ==
  LET allPlaylists == getUserPlaylists(r.response, pl)
      dataPlaylists ==
        SelectSeq(allPlaylists,
                  LAMBDA p : startsWith(p.name, DATA_PLAYLIST_PREFIX)
                               /\ p.owner = op.userId)
      categoryPlaylists ==
        SelectSeq(allPlaylists,
                  LAMBDA p : startsWith(p.name, CATEGORY_PREFIX)
                               /\ p.owner = op.userId)
      op2 == [op EXCEPT !.deletedData = Len(dataPlaylists),
                        !.deletedCategories = Len(categoryPlaylists),
                        !.listed = dataPlaylists \o categoryPlaylists,
                        !.clean = (r.response.status = 200)]
  IN IF r.thrown THEN Thrown(op, pl, nid)
     ELSE IF Len(op2.listed) = 0 THEN Returned(op2, resetResult(op2), pl, nid)
     ELSE Running([op2 EXCEPT !.pc = "delete"], pl, nid)

\* lines 378-393: the delete of the next listed playlist is answered
resetAfterDelete(op, r, pl, nid) ==
  LET id == op.listed[Len(op.requested) + 1].id
      ok == ~r.thrown /\ r.response.status = 200
      pl2 == IF ok THEN RemoteDelete(pl, id) ELSE pl
      op2 == [op EXCEPT !.requested = Append(@, id), !.clean = @ /\ ok]
  IN IF r.thrown THEN Thrown(op, pl, nid)
     ELSE IF Len(op2.requested) < Len(op.listed) THEN Running(op2, pl2, nid)
     ELSE Returned(op2, resetResult(op2), pl2, nid)

\* line 138: deleteCategoryPlaylist(token, playlistId) with a playlistId;
\* the DELETE is awaited.  before is the remote when the call was made.
deleteCategoryPlaylist(playlistId, before) ==
  [name |-> "delete", pc |-> "delete", id |-> playlistId,
   before |-> before, clean |-> TRUE]

\* deleteAfter that rejects when the status is an error
deleteAfterChecked(op, r, pl, nid) ==
  IF r.thrown \/ r.response.status # 200 THEN Thrown(op, pl, nid)
  ELSE Returned(op, r.response, RemoteDelete(pl, op.id), nid)

\* lines 118-123: the DELETE is answered; deletePlaylist returns the
\* response whatever its status
deleteAfter(op, r, pl, nid) ==
  IF r.thrown THEN Thrown(op, pl, nid)
  ELSE IF r.response.status = 200
  THEN Returned(op, r.response, RemoteDelete(pl, op.id), nid)
  ELSE Returned([op EXCEPT !.clean = FALSE], r.response, pl, nid)

\* ------------------------------------------------------------------
\* app.js: the component's state and the continuations of its handlers.
\* A task is a handler in flight: the store call it awaits (op), the point
\* it resumes at (stage) and its local variables (local).
\* ------------------------------------------------------------------
InitialState ==
  [userId |-> Me, categories |-> EmptyObject,
   categoryPlaylists |-> EmptyObject, artists |-> <<>>,
   loading |-> FALSE, syncing |-> FALSE, isSaving |-> FALSE,
   showMigration |-> FALSE, migrationData |-> JLit("null"),
   showResetConfirm |-> FALSE]

NoLocal ==
  [loadedCategories |-> EmptyObject, allArtists |-> <<>>,
   playlists |-> EmptyObject, remaining |-> <<>>, categoryName |-> "",
   updatedCategories |-> EmptyObject, playlistId |-> 0,
   loaded |-> EmptyObject, saved |-> Undefined]

IdleTask == [handler |-> "idle", stage |-> "", op |-> NoOp, local |-> NoLocal]

\* the handler awaits the call `op` and will resume at `stage`
Await(task, stage, op, local, st) ==
  [task |-> [task EXCEPT !.stage = stage, !.op = op, !.local = local],
   state |-> st]

\* JavaScript truthiness of a JSON value
Truthy(x) ==
  ~(x = JLit("false") \/ x = JLit("null") \/ x = JStr("") \/ x = JNum("0")
      \/ x = Undefined)

\* lines 201-206 and 313-317: the handler's catch block and its last
\* statement leave the same state
handlerEnd(task, st) ==
  [task |-> IdleTask,
   state |-> CASE task.handler = "syncWithSpotify" ->
                    [st EXCEPT !.syncing = FALSE]
               [] task.handler \in {"handleMigration", "initializeApp",
                                    "handleReset"} ->
                    [st EXCEPT !.loading = FALSE]
               [] OTHER -> st]

\* line 163
loadDataFinish(task, st) ==
  [task |-> IdleTask,
   state |-> handlerEnd(task,
                        [st EXCEPT !.categories =
                                     task.local.loadedCategories]).state,
   completed |-> TRUE]

\* lines 150-161: the unfollowed artists are removed; a category whose
\* value is no array throws
loadDataCleanup(task, st) ==
  LET loaded == task.local.loadedCategories
      current == {JStr(task.local.allArtists[k]) :
                    k \in 1..Len(task.local.allArtists)}
      throws == \E k \in 1..Len(loaded.v) : loaded.v[k][2].t # "arr"
      filtered ==
        JObj([k \in 1..Len(loaded.v) |->
                <<loaded.v[k][1],
                  JArr(SelectSeq(loaded.v[k][2].v,
                                 LAMBDA id : id \in current))>>])
      hasChanges ==
        \E k \in 1..Len(loaded.v) :
          Len(filtered.v[k][2].v) # Len(loaded.v[k][2].v)
  IN IF throws THEN handlerEnd(task, st)
     ELSE IF hasChanges
     THEN Await(task, "save2", saveCategoriesToSpotify(st.userId, filtered),
                [task.local EXCEPT !.loadedCategories = filtered,
                                   !.saved = filtered], st)
     ELSE loadDataFinish([task EXCEPT !.local.loadedCategories = filtered],
                         st)

\* lines 142-148
loadDataEnsurePlaylist(task, st) ==
  LET created == task.local.playlists
  IN IF HasKey(created, "Uncategorized")
          /\ Get(created, "Uncategorized") # 0
     THEN loadDataCleanup(task, st)
     ELSE Await(task, "create",
                createCategoryPlaylist(st.userId, "Uncategorized"),
                task.local, st)

\* lines 121-140: the followed artists that are in no category are added
\* to Uncategorized and the mapping is saved
loadDataMerge(task, st) ==
  LET loaded == task.local.loadedCategories
      allArtists == task.local.allArtists
      categorized(a) ==
        \E k \in 1..Len(loaded.v) :
          LET x == loaded.v[k][2]
          IN \/ x = JStr(a)
             \/ x.t = "arr" /\ \E j \in 1..Len(x.v) : x.v[j] = JStr(a)
      uncategorizedArtists ==
        SelectSeq(allArtists, LAMBDA a : ~categorized(a))
      ensured ==
        IF HasKey(loaded, "Uncategorized")
             /\ Truthy(Get(loaded, "Uncategorized"))
        THEN loaded
        ELSE Put(loaded, "Uncategorized", JArr(<<>>))
      before == Get(ensured, "Uncategorized")
      spread ==
        IF before.t = "arr" THEN before.v
        ELSE [k \in 1..Len(before.v) |-> JStr(CharAt(before.v, k))]
      merged ==
        Put(ensured, "Uncategorized",
            JArr(spread \o [k \in 1..Len(uncategorizedArtists) |->
                              JStr(uncategorizedArtists[k])]))
  IN IF Len(uncategorizedArtists) = 0
     THEN loadDataEnsurePlaylist(
            [task EXCEPT !.local.loadedCategories = ensured], st)
     ELSE IF before.t \notin {"arr", "str"} THEN handlerEnd(task, st)
     ELSE Await(task, "save1", saveCategoriesToSpotify(st.userId, merged),
                [task.local EXCEPT !.loadedCategories = merged,
                                   !.saved = merged], st)

\* lines 101-164: loadData resumes after the call it awaited.  A value
\* that is not an object makes line 106 or line 127 throw.
loadData(task, r, st) ==
  CASE r.status = "thrown" -> handlerEnd(task, st)
    [] task.stage = "load" ->
         IF r.value.t # "obj" THEN handlerEnd(task, st)
         ELSE LET loadedCategories ==
                    IF HasKey(r.value, "_corrupted")
                         /\ Truthy(Get(r.value, "_corrupted"))
                    THEN EmptyObject ELSE r.value
              IN Await(task, "artists", getFollowedArtists,
                       [task.local EXCEPT
                          !.loadedCategories = loadedCategories,
                          !.loaded = loadedCategories],
                       st)
    [] task.stage = "artists" ->
         Await(task, "playlists", getCategoryPlaylists(st.userId),
               [task.local EXCEPT !.allArtists = r.value],
               [st EXCEPT !.artists = r.value])
    [] task.stage = "playlists" ->
         loadDataMerge([task EXCEPT !.local.playlists = r.value],
                       [st EXCEPT !.categoryPlaylists = r.value])
    [] task.stage = "save1" -> loadDataEnsurePlaylist(task, st)
    [] task.stage = "create" ->
         LET created == Put(task.local.playlists, "Uncategorized", r.value)
         IN loadDataCleanup([task EXCEPT !.local.playlists = created],
                            [st EXCEPT !.categoryPlaylists = created])
    [] OTHER -> loadDataFinish(task, st)

\* lines 178-189: the next category playlist is created; after the last
\* one the state is set and the old playlists are deleted
migrationNextCreate(task, st) ==
  IF Len(task.local.remaining) > 0
  THEN Await(task, "commitCreate",
             createCategoryPlaylist(st.userId, task.local.remaining[1]),
             task.local, st)
  ELSE Await(task, "commitDelete",
             deleteOldPlaylists(st.migrationData.oldPlaylists), task.local,
             [st EXCEPT !.categoryPlaylists = task.local.playlists,
                        !.categories = st.migrationData.categories])

\* lines 171-206: handleMigration(true) resumes after the call it awaited
handleMigration(task, r, st) ==
  CASE r.status = "thrown" -> handlerEnd(task, st)
    [] task.stage = "commitSave" ->
         migrationNextCreate(
           [task EXCEPT !.local.remaining = Keys(st.migrationData.categories),
                        !.local.playlists = EmptyObject], st)
    [] task.stage = "commitCreate" ->
         migrationNextCreate(
           [task EXCEPT !.local.remaining = Tail(@),
                        !.local.playlists =
                           Put(@, task.local.remaining[1], r.value)], st)
    [] task.stage = "commitDelete" ->
         Await(task, "commitArtists", getFollowedArtists, task.local, st)
    [] OTHER -> handlerEnd(task, [st EXCEPT !.artists = r.value])

\* spotify-api.js lines 53-58: getCurrentUser; the GET of /v1/me is
\* awaited
getCurrentUser == [name |-> "user", pc |-> "me", clean |-> TRUE]

\* the id property of the body getCurrentUser returns, as it appears in a
\* request: the user's identifier, or undefined for an error body
userDataId(response) ==
  IF response.status = 200 THEN Me ELSE "undefined"

\* the userId state before setUserId
NullUser == "null"

\* includes(id) on a list of identifiers
includes(list, id) == \E k \in 1..Len(list) : list[k] = id

\* part_000 lines 101-112 (app.js lines 78-82): getCurrentUser has
\* answered.  A user who is not in a non-empty ALLOWED_USER_IDS is
\* refused: clearAuth and return; otherwise migrateFromOldFormat is
\* awaited.  `cleared` tells whether clearAuth ran.
initializeApp(task, r, allowed, st) ==
  LET id == userDataId(r.response)
  IN IF r.thrown
     THEN [task |-> IdleTask, state |-> [st EXCEPT !.loading = FALSE],
           cleared |-> FALSE]
     ELSE IF Len(allowed) > 0 /\ ~includes(allowed, id)
     THEN [task |-> IdleTask, state |-> [st EXCEPT !.loading = FALSE],
           cleared |-> TRUE]
     ELSE [task |-> [task EXCEPT !.stage = "migrate",
                                 !.op = migrateCall(id)],
           state |-> [st EXCEPT !.userId = id],
           cleared |-> FALSE]

\* part_000 lines 116-126 (app.js lines 84-94): migrateFromOldFormat has
\* returned; a migration is shown as a prompt and initializeApp returns,
\* otherwise loadData starts
initializeAppMigration(task, r, st) ==
  IF r.status = "thrown" THEN handlerEnd(task, st)
  ELSE IF r.value # JLit("null")
  THEN [task |-> IdleTask,
        state |-> [st EXCEPT !.migrationData = r.value,
                             !.showMigration = TRUE, !.loading = FALSE]]
  ELSE Await(task, "load", loadCategoriesFromSpotify(st.userId), task.local,
             st)

\* app.js lines 223-231 and 49-58: the background block of addCategory
\* resumes after the create, then after the save of saveInBackground
addCategory(task, r, st) ==
  IF task.stage = "create"
  THEN IF r.status = "thrown" THEN [task |-> IdleTask, state |-> st]
       ELSE Await(task, "save",
                  saveCategoriesToSpotify(st.userId,
                                          task.local.updatedCategories),
                  task.local,
                  [st EXCEPT !.categoryPlaylists =
                               Put(@, task.local.categoryName, r.value),
                             !.isSaving = TRUE])
  ELSE [task |-> IdleTask, state |-> [st EXCEPT !.isSaving = FALSE]]

\* app.js lines 255-265: the background block of deleteCategory resumes
\* after the save of saveInBackground, which catches its own failure,
\* then after the delete
deleteCategory(task, r, st) ==
  IF task.stage = "save" /\ task.local.playlistId # 0
  THEN Await(task, "delete",
             deleteCategoryPlaylist(task.local.playlistId, r.playlists),
             task.local, [st EXCEPT !.isSaving = FALSE])
  ELSE IF task.stage = "save"
  THEN [task |-> IdleTask, state |-> [st EXCEPT !.isSaving = FALSE]]
  ELSE [task |-> IdleTask, state |-> st]

\* app.js lines 289-294: resetAllData has returned; the state is emptied
\* and loadData starts
handleReset(task, r, st) ==
  IF r.status = "thrown" THEN handlerEnd(task, st)
  ELSE Await(task, "load", loadCategoriesFromSpotify(st.userId), task.local,
             [st EXCEPT !.categories = EmptyObject,
                        !.categoryPlaylists = EmptyObject])

\* The continuation of the handler that awaited the finished call r:
\* [task, state].  A direct call of a store function has no continuation.
Resume(task, r, st) ==
  CASE task.handler = "saveInBackground" ->
         [task |-> IdleTask, state |-> [st EXCEPT !.isSaving = FALSE]]
    [] task.handler = "handleMigration"
         /\ task.stage \in {"commitSave", "commitCreate", "commitDelete",
                            "commitArtists"} ->
         handleMigration(task, r, st)
    [] task.handler \in {"handleMigration", "syncWithSpotify"} ->
         loadData(task, r, st)
    [] task.handler = "initializeApp" ->
         IF task.stage = "migrate" THEN initializeAppMigration(task, r, st)
         ELSE loadData(task, r, st)
    [] task.handler = "handleReset" ->
         IF task.stage = "reset" THEN handleReset(task, r, st)
         ELSE loadData(task, r, st)
    [] task.handler = "addCategory" -> addCategory(task, r, st)
    [] task.handler = "deleteCategory" -> deleteCategory(task, r, st)
    [] OTHER -> [task |-> IdleTask, state |-> st]

\* ------------------------------------------------------------------
\* Tasks: the asynchronous calls in flight
\* ------------------------------------------------------------------
MaxTasks == 2
TaskIds == 1..MaxTasks
MaxFaults == 1
MaxCalls == 3
MaxActions == 2

\* the answer `a` to a request whose target exists (or not) is within the
\* bounds: only an existing playlist can be updated or fetched
FaultCost(a, exists) == IF a = "ok" \/ (a = "error" /\ ~exists) THEN 0 ELSE 1
Allowed(a, exists) ==
  /\ a = "ok" => exists
  /\ faults + FaultCost(a, exists) <= MaxFaults

\* the continuation c of `task` was the last of loadData (line 163)
RecordLoadData(h, task, c) ==
  IF "completed" \in DOMAIN c
  THEN [h EXCEPT !.loadData = [done |-> TRUE, loaded |-> task.local.loaded,
                               categories |-> c.state.categories,
                               written |-> task.local.saved]]
  ELSE h

\* the response has been handled up to the next await
Deliver(t, r) ==
  /\ playlists' = r.playlists
  /\ nextId' = r.nextId
  /\ IF r.status = "running"
     THEN /\ tasks' = [tasks EXCEPT ![t].op = r.op]
          /\ UNCHANGED <<state, hist>>
     ELSE LET c == Resume(tasks[t], r, state)
          IN /\ tasks' = [tasks EXCEPT ![t] = c.task]
             /\ state' = c.state
             /\ hist' = RecordLoadData(Record(hist, r), tasks[t], c)

SaveList(t) ==
  /\ tasks[t].op.name = "save" /\ tasks[t].op.pc = "list"
  /\ \E a \in Answers :
       /\ Allowed(a, TRUE)
       /\ faults' = faults + FaultCost(a, TRUE)
       /\ Deliver(t, saveAfterList(tasks[t].op, Fetch(a), playlists, nextId))
  /\ UNCHANGED <<htmlEscapes, following, started, codecVars, call, listing, naming, session>>

SaveWrite(t) ==
  /\ tasks[t].op.name = "save" /\ tasks[t].op.pc = "write"
  /\ \E a \in Answers :
       LET id == saveTarget(tasks[t].op)
           exists == (id = 0 /\ tasks[t].op.userId = Me)
                       \/ Exists(playlists, id)
       IN /\ Allowed(a, exists)
          /\ faults' = faults + FaultCost(a, exists)
          /\ Deliver(t, saveAfterWrite(tasks[t].op, Fetch(a), playlists,
                                       nextId))
  /\ UNCHANGED <<htmlEscapes, following, started, codecVars, call, listing, naming, session>>

SaveDelete(t) ==
  /\ tasks[t].op.name = "save" /\ tasks[t].op.pc = "delete"
  /\ \E a \in Answers :
       /\ Allowed(a, TRUE)
       /\ faults' = faults + FaultCost(a, TRUE)
       /\ Deliver(t, saveAfterDelete(tasks[t].op, Fetch(a), playlists,
                                     nextId))
  /\ UNCHANGED <<htmlEscapes, following, started, codecVars, call, listing, naming, session>>

LoadList(t) ==
  /\ tasks[t].op.name = "load" /\ tasks[t].op.pc = "list"
  /\ \E a \in Answers :
       /\ Allowed(a, TRUE)
       /\ faults' = faults + FaultCost(a, TRUE)
       /\ Deliver(t, loadAfterList(tasks[t].op, Fetch(a), playlists, nextId))
  /\ UNCHANGED <<htmlEscapes, following, started, codecVars, call, listing, naming, session>>

LoadDetail(t) ==
  /\ tasks[t].op.name = "load" /\ tasks[t].op.pc = "detail"
  /\ \E a \in Answers :
       LET id == tasks[t].op.dataPlaylistRefs[tasks[t].op.k].id
           exists == Exists(playlists, id)
       IN /\ Allowed(a, exists)
          /\ faults' = faults + FaultCost(a, exists)
          /\ Deliver(t, loadAfterDetail(tasks[t].op, Fetch(a), playlists,
                                        nextId, htmlEscapes))
  /\ UNCHANGED <<htmlEscapes, following, started, codecVars, call, listing, naming, session>>

CreatePlaylist(t) ==
  /\ tasks[t].op.name = "create"
  /\ \E a \in Answers :
       /\ Allowed(a, tasks[t].op.userId = Me)
       /\ faults' = faults + FaultCost(a, tasks[t].op.userId = Me)
       /\ Deliver(t, createAfter(tasks[t].op, Fetch(a), playlists, nextId))
  /\ UNCHANGED <<htmlEscapes, following, started, codecVars, call, listing, naming, session>>

DeleteOld(t) ==
  /\ tasks[t].op.name = "deleteOld"
  /\ \E a \in Answers :
       /\ Allowed(a, TRUE)
       /\ faults' = faults + FaultCost(a, TRUE)
       /\ Deliver(t, deleteOldAfter(tasks[t].op, Fetch(a), playlists, nextId))
  /\ UNCHANGED <<htmlEscapes, following, started, codecVars, call, listing, naming, session>>

FollowedArtists(t) ==
  /\ tasks[t].op.name = "artists"
  /\ \E a \in Answers :
       /\ Allowed(a, TRUE)
       /\ faults' = faults + FaultCost(a, TRUE)
       /\ Deliver(t, artistsAfter(tasks[t].op, Fetch(a), playlists, nextId,
                                  following))
  /\ UNCHANGED <<htmlEscapes, following, started, codecVars, call, listing, naming, session>>

CategoryList(t) ==
  /\ tasks[t].op.name = "categoryPlaylists"
  /\ \E a \in Answers :
       /\ Allowed(a, TRUE)
       /\ faults' = faults + FaultCost(a, TRUE)
       /\ Deliver(t, categoryPlaylistsAfter(tasks[t].op, Fetch(a), playlists,
                                            nextId))
  /\ UNCHANGED <<htmlEscapes, following, started, codecVars, call, listing, naming, session>>

MigrateList(t) ==
  /\ tasks[t].op.name = "migrate" /\ tasks[t].op.pc = "list"
  /\ \E a \in Answers :
       /\ Allowed(a, TRUE)
       /\ faults' = faults + FaultCost(a, TRUE)
       /\ Deliver(t, migrateAfterList(tasks[t].op, Fetch(a), playlists,
                                      nextId))
  /\ UNCHANGED <<htmlEscapes, following, started, codecVars, call, listing, naming, session>>

MigrateTracks(t) ==
  /\ tasks[t].op.name = "migrate" /\ tasks[t].op.pc = "tracks"
  /\ \E a \in Answers :
       LET id == tasks[t].op.oldPlaylists[Len(tasks[t].op.tracks) + 1].id
           exists == Exists(playlists, id)
       IN /\ Allowed(a, exists)
          /\ faults' = faults + FaultCost(a, exists)
          /\ Deliver(t, migrateAfterTracks(tasks[t].op, Fetch(a), playlists,
                                           nextId))
  /\ UNCHANGED <<htmlEscapes, following, started, codecVars, call, listing, naming, session>>

ResetList(t) ==
  /\ tasks[t].op.name = "reset" /\ tasks[t].op.pc = "list"
  /\ \E a \in Answers :
       /\ Allowed(a, TRUE)
       /\ faults' = faults + FaultCost(a, TRUE)
       /\ Deliver(t, resetAfterList(tasks[t].op, Fetch(a), playlists, nextId))
  /\ UNCHANGED <<htmlEscapes, following, started, codecVars, call, listing, naming, session>>

ResetDelete(t) ==
  /\ tasks[t].op.name = "reset" /\ tasks[t].op.pc = "delete"
  /\ \E a \in Answers :
       LET id == tasks[t].op.listed[Len(tasks[t].op.requested) + 1].id
           exists == Exists(playlists, id)
       IN /\ Allowed(a, exists)
          /\ faults' = faults + FaultCost(a, exists)
          /\ Deliver(t, resetAfterDelete(tasks[t].op, Fetch(a), playlists,
                                         nextId))
  /\ UNCHANGED <<htmlEscapes, following, started, codecVars, call, listing, naming, session>>

DeletePlaylist(t) ==
  /\ tasks[t].op.name = "delete"
  /\ \E a \in Answers :
       LET exists == Exists(playlists, tasks[t].op.id)
       IN /\ Allowed(a, exists)
          /\ faults' = faults + FaultCost(a, exists)
          /\ Deliver(t, deleteAfter(tasks[t].op, Fetch(a), playlists, nextId))
  /\ UNCHANGED <<htmlEscapes, following, started, codecVars, call, listing, naming, session>>

\* ------------------------------------------------------------------
\* Category mappings used as inputs.  Artist identifiers have the 22
\* characters of the remote's identifiers.
\* ------------------------------------------------------------------
ArtistId(n) == "4Z8W4fKeB5YxbusRsdQV" \o IntToString(n + 10)
ArtistIds(a, b) == JArr([i \in 1..(b - a + 1) |-> JStr(ArtistId(a + i - 1))])

\* one chunk; a category name that contains an entity-like sequence
SmallDocument ==
  JObj(<< <<"Uncategorized", ArtistIds(1, 2)>>,
          <<"R&amp;B", ArtistIds(3, 3)>> >>)
\* two chunks
MediumDocument ==
  JObj(<< <<"Uncategorized", ArtistIds(1, 8)>>,
          <<"Rock", ArtistIds(9, 14)>> >>)
\* three chunks
LargeDocument ==
  JObj(<< <<"Uncategorized", ArtistIds(1, 10)>>,
          <<"Rock", ArtistIds(11, 20)>>,
          <<"Jazz", ArtistIds(21, 26)>> >>)

Documents == <<SmallDocument, MediumDocument, LargeDocument>>

\* ------------------------------------------------------------------
\* Specification SpecStore: direct calls of saveCategoriesToSpotify and
\* loadCategoriesFromSpotify, one after the other, against a remote that
\* may fail
\* ------------------------------------------------------------------
ExtraPlaylist ==
  Playlist(1, Me, DATA_PLAYLIST_PREFIX \o "Extra", "my notes", FALSE, <<>>)
ForeignPlaylist ==
  Playlist(2, Other, DATA_PLAYLIST_PREFIX, "{\"Theirs\":[]}", TRUE, <<>>)
UnrelatedPlaylist == Playlist(3, Me, "Road trip", "", TRUE, <<>>)

\* The data playlists left behind by a save of SmallDocument over
\* LargeDocument whose second surplus delete threw: slot 0 is rewritten,
\* slot 1 is deleted, slot 2 still holds the old chunk.
InterruptedShrink ==
  << Playlist(4, Me, getDataPlaylistName(0),
              chunkData(JSONstringify(SmallDocument),
                        DESCRIPTION_MAX_LENGTH)[1], FALSE, <<>>),
     Playlist(6, Me, getDataPlaylistName(2),
              chunkData(JSONstringify(LargeDocument),
                        DESCRIPTION_MAX_LENGTH)[3], FALSE, <<>>) >>

StoreLibraries ==
  { <<>>,
    <<ExtraPlaylist, ForeignPlaylist, UnrelatedPlaylist>>,
    InterruptedShrink }

InitStore ==
  /\ playlists \in StoreLibraries
  /\ nextId = 10
  /\ htmlEscapes \in BOOLEAN
  /\ following = <<>>
  /\ tasks = [t \in TaskIds |-> IdleTask]
  /\ state = InitialState
  /\ faults = 0
  /\ started = 0
  /\ hist = NoHistory
  /\ descriptions = <<>>
  /\ jsonString = ""
  /\ loadResult = Undefined
  /\ loadPc = "idle"
  /\ call = CallIdle
  /\ listing = NoListing
  /\ naming = NoNaming
  /\ session = OpenSession

AllIdle == \A t \in TaskIds : tasks[t].handler = "idle"

\* a caller invokes saveCategoriesToSpotify(token, userId, categories)
CallSave(t) ==
  /\ AllIdle
  /\ started < MaxCalls
  /\ \E d \in 1..Len(Documents) :
       tasks' = [tasks EXCEPT ![t] =
                   [IdleTask EXCEPT
                      !.handler = "direct",
                      !.op = saveCategoriesToSpotify(Me, Documents[d])]]
  /\ started' = started + 1
  /\ UNCHANGED <<remoteVars, state, faults, hist, codecVars, call, listing, naming, session>>

\* a caller invokes loadCategoriesFromSpotify(token, userId)
CallLoad(t) ==
  /\ AllIdle
  /\ started < MaxCalls
  /\ tasks' = [tasks EXCEPT ![t] =
                 [IdleTask EXCEPT
                    !.handler = "direct",
                    !.op = loadCategoriesFromSpotify(Me)]]
  /\ started' = started + 1
  /\ UNCHANGED <<remoteVars, state, faults, hist, codecVars, call, listing, naming, session>>

NextStore ==
  \/ CallSave(1)
  \/ CallLoad(1)
  \/ SaveList(1)
  \/ SaveWrite(1)
  \/ SaveDelete(1)
  \/ LoadList(1)
  \/ LoadDetail(1)

SpecStore == InitStore /\ [][NextStore]_vars

\* Specification SpecDuplicates: the same calls against a library in
\* which two of the owner's playlists have the same logical index: two
\* playlists with the base name, or the base name and base_1
DuplicateLibraries ==
  { << Playlist(4, Me, DATA_PLAYLIST_PREFIX, JSONstringify(SmallDocument),
                FALSE, <<>>),
       Playlist(5, Me, DATA_PLAYLIST_PREFIX, JSONstringify(SmallDocument),
                FALSE, <<>>) >>,
    << Playlist(4, Me, DATA_PLAYLIST_PREFIX, JSONstringify(SmallDocument),
                FALSE, <<>>),
       Playlist(5, Me, DATA_PLAYLIST_PREFIX \o "_1",
                JSONstringify(SmallDocument), FALSE, <<>>) >> }

InitDuplicates ==
  /\ playlists \in DuplicateLibraries
  /\ nextId = 10
  /\ htmlEscapes \in BOOLEAN
  /\ following = <<>>
  /\ tasks = [t \in TaskIds |-> IdleTask]
  /\ state = InitialState
  /\ faults = 0
  /\ started = 0
  /\ hist = NoHistory
  /\ descriptions = <<>>
  /\ jsonString = ""
  /\ loadResult = Undefined
  /\ loadPc = "idle"
  /\ call = CallIdle
  /\ listing = NoListing
  /\ naming = NoNaming
  /\ session = OpenSession

SpecDuplicates == InitDuplicates /\ [][NextStore]_vars

\* Specification SpecFresh: saves, one after the other, of a user who
\* has no data playlist yet
FreshLibraries == { <<>>, <<ForeignPlaylist, UnrelatedPlaylist>> }

InitFresh ==
  /\ playlists \in FreshLibraries
  /\ nextId = 10
  /\ htmlEscapes \in BOOLEAN
  /\ following = <<>>
  /\ tasks = [t \in TaskIds |-> IdleTask]
  /\ state = InitialState
  /\ faults = 0
  /\ started = 0
  /\ hist = NoHistory
  /\ descriptions = <<>>
  /\ jsonString = ""
  /\ loadResult = Undefined
  /\ loadPc = "idle"
  /\ call = CallIdle
  /\ listing = NoListing
  /\ naming = NoNaming
  /\ session = OpenSession

NextFresh ==
  \/ CallSave(1)
  \/ SaveList(1)
  \/ SaveWrite(1)
  \/ SaveDelete(1)

SpecFresh == InitFresh /\ [][NextFresh]_vars

\* Specification SpecOrder: loads of a library whose data playlists are
\* listed in any order, with logical indices 0, 1 and 9
OrderSlots ==
  << Playlist(4, Me, getDataPlaylistName(0), "{\"Rock\":", FALSE, <<>>),
     Playlist(5, Me, getDataPlaylistName(1), "[\"a\",", FALSE, <<>>),
     Playlist(6, Me, getDataPlaylistName(9), "\"b\"]}", FALSE, <<>>) >>

\* every listing order of every non-empty choice of the slots
OrderLibraries ==
  {[k \in 1..Len(f) |-> OrderSlots[f[k]]] :
     f \in {g \in UNION {[1..n -> 1..3] : n \in 1..3} :
              \A i, j \in DOMAIN g : i # j => g[i] # g[j]}}

InitOrder ==
  /\ playlists \in OrderLibraries
  /\ nextId = 10
  /\ htmlEscapes \in BOOLEAN
  /\ following = <<>>
  /\ tasks = [t \in TaskIds |-> IdleTask]
  /\ state = InitialState
  /\ faults = 0
  /\ started = 0
  /\ hist = NoHistory
  /\ descriptions = <<>>
  /\ jsonString = ""
  /\ loadResult = Undefined
  /\ loadPc = "idle"
  /\ call = CallIdle
  /\ listing = NoListing
  /\ naming = NoNaming
  /\ session = OpenSession

NextOrder ==
  \/ CallLoad(1)
  \/ LoadList(1)
  \/ LoadDetail(1)

SpecOrder == InitOrder /\ [][NextOrder]_vars

\* ------------------------------------------------------------------
\* Specification SpecMaint: direct calls of migrateFromOldFormat,
\* resetAllData, deleteCategoryPlaylist and loadCategoriesFromSpotify,
\* one after the other, against a remote that may fail
\* ------------------------------------------------------------------
\* one chunk
AppDocument ==
  JObj(<< <<"Uncategorized", ArtistIds(1, 1)>>,
          <<"Rock", ArtistIds(2, 3)>> >>)

\* the track-based playlists of the previous version: the first artist of
\* each track
LegacyLibrary ==
  << Playlist(1, Me, OLD_PREFIX \o "Rock", "", TRUE,
              <<ArtistId(2), ArtistId(3), ArtistId(2)>>),
     Playlist(2, Me, OLD_PREFIX \o "Jazz", "", TRUE, <<>>),
     UnrelatedPlaylist >>

\* the playlists of the current version
CurrentLibrary ==
  << Playlist(4, Me, getDataPlaylistName(0), JSONstringify(AppDocument),
              FALSE, <<>>),
     Playlist(7, Me, CATEGORY_PREFIX \o "Uncategorized", "", FALSE, <<>>),
     Playlist(8, Me, CATEGORY_PREFIX \o "Rock", "", FALSE, <<>>) >>

\* playlists of another user that the owner follows
FollowedLibrary ==
  << Playlist(5, Other, OLD_PREFIX \o "Pop", "", TRUE, <<ArtistId(4)>>),
     Playlist(6, Other, CATEGORY_PREFIX \o "Pop", "", TRUE, <<>>),
     Playlist(9, Other, DATA_PLAYLIST_PREFIX, "{\"Theirs\":[]}", TRUE, <<>>) >>

MaintLibraries ==
  { LegacyLibrary \o FollowedLibrary,
    CurrentLibrary \o <<ExtraPlaylist, UnrelatedPlaylist>> \o FollowedLibrary,
    LegacyLibrary \o CurrentLibrary }

InitMaint ==
  /\ playlists \in MaintLibraries
  /\ nextId = 10
  /\ htmlEscapes = TRUE
  /\ following = <<>>
  /\ tasks = [t \in TaskIds |-> IdleTask]
  /\ state = InitialState
  /\ faults = 0
  /\ started = 0
  /\ hist = NoHistory
  /\ descriptions = <<>>
  /\ jsonString = ""
  /\ loadResult = Undefined
  /\ loadPc = "idle"
  /\ call = CallIdle
  /\ listing = NoListing
  /\ naming = NoNaming
  /\ session = OpenSession

\* a caller invokes migrateFromOldFormat(token, userId)
CallMigrate(t) ==
  /\ AllIdle
  /\ started < MaxCalls
  /\ tasks' = [tasks EXCEPT ![t] =
                 [IdleTask EXCEPT !.handler = "direct",
                                  !.op = migrateCall(Me)]]
  /\ started' = started + 1
  /\ UNCHANGED <<remoteVars, state, faults, hist, codecVars, call, listing, naming, session>>

\* a caller invokes resetAllData(token, userId)
CallReset(t) ==
  /\ AllIdle
  /\ started < MaxCalls
  /\ tasks' = [tasks EXCEPT ![t] =
                 [IdleTask EXCEPT !.handler = "direct",
                                  !.op = resetAllData(Me)]]
  /\ started' = started + 1
  /\ UNCHANGED <<remoteVars, state, faults, hist, codecVars, call, listing, naming, session>>

\* the identifiers deleteCategoryPlaylist is called with: none (0), a
\* category playlist, a playlist of another user, no playlist
DeleteIds == {0, 7, 6, 99}

\* a caller invokes deleteCategoryPlaylist(token, playlistId); line 137
\* returns at once when there is no playlistId
CallDeleteCategory(t) ==
  /\ AllIdle
  /\ started < MaxCalls
  /\ \E playlistId \in DeleteIds :
       IF playlistId = 0
       THEN /\ hist' = [hist EXCEPT
                          !.del = [kind |-> "skipped", id |-> 0,
                                   requests |-> 0, before |-> playlists,
                                   after |-> playlists],
                          !.delPrev = hist.del]
            /\ UNCHANGED tasks
       ELSE /\ tasks' = [tasks EXCEPT ![t] =
                           [IdleTask EXCEPT
                              !.handler = "direct",
                              !.op = deleteCategoryPlaylist(playlistId,
                                                            playlists)]]
            /\ UNCHANGED hist
  /\ started' = started + 1
  /\ UNCHANGED <<remoteVars, state, faults, codecVars, call, listing, naming, session>>

NextMaint ==
  \/ CallMigrate(1)
  \/ CallReset(1)
  \/ CallDeleteCategory(1)
  \/ CallLoad(1)
  \/ MigrateList(1)
  \/ MigrateTracks(1)
  \/ ResetList(1)
  \/ ResetDelete(1)
  \/ DeletePlaylist(1)
  \/ LoadList(1)
  \/ LoadDetail(1)

SpecMaint == InitMaint /\ [][NextMaint]_vars

\* ------------------------------------------------------------------
\* Specification SpecApp: the user's actions on the component, their
\* background calls interleaved
\* ------------------------------------------------------------------
\* lines 341-421: the main view is rendered
MainView ==
  ~state.showResetConfirm /\ ~state.showMigration /\ ~state.loading

\* the slot of the next handler in flight
FreeTask(t) ==
  /\ tasks[t].handler = "idle"
  /\ \A u \in 1..(t - 1) : tasks[u].handler # "idle"

\* lines 273-275
moveArtist(categories, artistId, fromCategory, toCategory) ==
  LET removed ==
        Put(categories, fromCategory,
            JArr(SelectSeq(Get(categories, fromCategory).v,
                           LAMBDA id : id # JStr(artistId))))
  IN Put(removed, toCategory,
         JArr(Append(Get(removed, toCategory).v, JStr(artistId))))

\* the artists the user moves
MovableArtists == {ArtistId(1), ArtistId(2)}

\* lines 269-281 and 49-52: the select of an artist's card changes; the
\* save runs in the background
MoveArtist(t) ==
  /\ MainView
  /\ FreeTask(t)
  /\ started < MaxActions
  /\ \E artistId \in MovableArtists,
        fromCategory \in KeySet(state.categories),
        toCategory \in KeySet(state.categories) :
       /\ fromCategory # toCategory
       /\ \E k \in 1..Len(state.artists) : state.artists[k] = artistId
       /\ \E k \in 1..Len(Get(state.categories, fromCategory).v) :
            Get(state.categories, fromCategory).v[k] = JStr(artistId)
       /\ LET updatedCategories ==
                moveArtist(state.categories, artistId, fromCategory,
                           toCategory)
          IN /\ state' = [state EXCEPT !.categories = updatedCategories,
                                       !.isSaving = TRUE]
             /\ tasks' = [tasks EXCEPT ![t] =
                            [IdleTask EXCEPT
                               !.handler = "saveInBackground",
                               !.op = saveCategoriesToSpotify(
                                        state.userId, updatedCategories)]]
  /\ started' = started + 1
  /\ UNCHANGED <<remoteVars, faults, hist, codecVars, call, listing, naming, session>>

\* lines 166-175 and 199: a button of the migration prompt is pressed
HandleMigration(t) ==
  /\ state.showMigration
  /\ FreeTask(t)
  /\ \E shouldMigrate \in BOOLEAN :
       tasks' = [tasks EXCEPT ![t] =
                   IF shouldMigrate /\ state.migrationData # JLit("null")
                   THEN [IdleTask EXCEPT
                           !.handler = "handleMigration",
                           !.stage = "commitSave",
                           !.op = saveCategoriesToSpotify(
                                    state.userId,
                                    state.migrationData.categories)]
                   ELSE [IdleTask EXCEPT
                           !.handler = "handleMigration",
                           !.stage = "load",
                           !.op = loadCategoriesFromSpotify(state.userId)]]
  /\ state' = [state EXCEPT !.showMigration = FALSE, !.loading = TRUE]
  /\ UNCHANGED <<remoteVars, faults, started, hist, codecVars, call, listing, naming, session>>

\* lines 304-311 and 473-474: the Sync button is pressed
SyncWithSpotify(t) ==
  /\ MainView
  /\ ~state.syncing
  /\ FreeTask(t)
  /\ started < MaxActions
  /\ state' = [state EXCEPT !.syncing = TRUE]
  /\ tasks' = [tasks EXCEPT ![t] =
                 [IdleTask EXCEPT
                    !.handler = "syncWithSpotify", !.stage = "load",
                    !.op = loadCategoriesFromSpotify(state.userId)]]
  /\ started' = started + 1
  /\ UNCHANGED <<remoteVars, faults, hist, codecVars, call, listing, naming, session>>

\* initializeApp (lines 74-90) has found the old track-based playlists of
\* a user of the previous version and shows the prompt
MigrationPrompt ==
  [playlists |-> LegacyLibrary,
   following |-> <<ArtistId(1), ArtistId(2), ArtistId(3)>>,
   state |-> [InitialState EXCEPT
                !.migrationData = migrateFromOldFormat(LegacyLibrary, Me),
                !.showMigration = TRUE]]

\* old playlists with tracks of the same artist in two of them
OverlapLibrary ==
  << Playlist(1, Me, OLD_PREFIX \o "Rock", "", TRUE,
              <<ArtistId(2), ArtistId(3)>>),
     Playlist(2, Me, OLD_PREFIX \o "Jazz", "", TRUE, <<ArtistId(3)>>) >>

\* the prompt for the playlists of OverlapLibrary
OverlapPrompt ==
  [playlists |-> OverlapLibrary,
   following |-> <<ArtistId(2), ArtistId(3)>>,
   state |-> [InitialState EXCEPT
                !.migrationData = migrateFromOldFormat(OverlapLibrary, Me),
                !.showMigration = TRUE]]

\* initializeApp and loadData have loaded AppDocument; `stale` are the
\* data playlists a shrinking save has left behind, and the user may since
\* have followed and unfollowed artists elsewhere
Loaded(stale, followed) ==
  [playlists |->
     << Playlist(4, Me, getDataPlaylistName(0), JSONstringify(AppDocument),
                 FALSE, <<>>) >>
       \o stale \o
     << Playlist(7, Me, CATEGORY_PREFIX \o "Uncategorized", "", FALSE, <<>>),
        Playlist(8, Me, CATEGORY_PREFIX \o "Rock", "", FALSE, <<>>) >>,
   following |-> followed,
   state |-> [InitialState EXCEPT
                !.categories = AppDocument,
                !.artists = <<ArtistId(1), ArtistId(2), ArtistId(3)>>,
                !.categoryPlaylists =
                   JObj(<< <<"Uncategorized", 7>>, <<"Rock", 8>> >>)]]

\* the loaded mapping with the second slot of MediumDocument not deleted
\* when the mapping shrank
LoadedShrunk ==
  Loaded(<< Playlist(5, Me, getDataPlaylistName(1),
                     chunkData(JSONstringify(MediumDocument),
                               DESCRIPTION_MAX_LENGTH)[2], FALSE, <<>>) >>,
         <<ArtistId(1), ArtistId(3), ArtistId(4)>>)

\* the prompt; the loaded mapping; the loaded mapping after a shrinking
\* save
AppStarts ==
  { MigrationPrompt,
    OverlapPrompt,
    Loaded(<<>>, <<ArtistId(1), ArtistId(2), ArtistId(3)>>),
    LoadedShrunk }

InitApp ==
  /\ \E s \in AppStarts :
       /\ playlists = s.playlists
       /\ following = s.following
       /\ state = s.state
  /\ nextId = 10
  /\ htmlEscapes = TRUE
  /\ tasks = [t \in TaskIds |-> IdleTask]
  /\ faults = 0
  /\ started = 0
  /\ hist = NoHistory
  /\ descriptions = <<>>
  /\ jsonString = ""
  /\ loadResult = Undefined
  /\ loadPc = "idle"
  /\ call = CallIdle
  /\ listing = NoListing
  /\ naming = NoNaming
  /\ session = OpenSession

NextApp ==
  \/ \E t \in TaskIds : MoveArtist(t)
  \/ \E t \in TaskIds : HandleMigration(t)
  \/ \E t \in TaskIds : SyncWithSpotify(t)
  \/ \E t \in TaskIds : SaveList(t)
  \/ \E t \in TaskIds : SaveWrite(t)
  \/ \E t \in TaskIds : SaveDelete(t)
  \/ \E t \in TaskIds : LoadList(t)
  \/ \E t \in TaskIds : LoadDetail(t)
  \/ \E t \in TaskIds : CreatePlaylist(t)
  \/ \E t \in TaskIds : DeleteOld(t)
  \/ \E t \in TaskIds : FollowedArtists(t)
  \/ \E t \in TaskIds : CategoryList(t)
  \/ CallMigrate(1)
  \/ \E t \in TaskIds : MigrateList(t)
  \/ \E t \in TaskIds : MigrateTracks(t)

SpecApp == InitApp /\ [][NextApp]_vars

\* ------------------------------------------------------------------
\* Specification SpecSession: a session from the mount of the component:
\* initializeApp with the access check, then the category and reset
\* actions of the main view
\* ------------------------------------------------------------------
\* the page is loaded with a stored credential (part_000 lines 54-58);
\* nothing has run
Mount(allowed) ==
  [allowed |-> allowed, stored |-> TRUE, accessToken |-> FALSE,
   denied |-> FALSE, mounted |-> FALSE, added |-> {}, removed |-> {}]

\* a data slot whose text cannot be parsed or recovered
CorruptedText == "garbage"

CorruptedLibrary ==
  << Playlist(4, Me, getDataPlaylistName(0), CorruptedText, FALSE, <<>>),
     Playlist(7, Me, CATEGORY_PREFIX \o "Uncategorized", "", FALSE, <<>>) >>

\* the library, the followed artists and ALLOWED_USER_IDS of a session:
\* a user of the current version, unrestricted and not allowed; an
\* allowed user whose data have shrunk; a user of the previous version; a
\* user whose data are corrupted
SessionStarts ==
  { [playlists |-> CurrentLibrary,
     following |-> <<ArtistId(1), ArtistId(2), ArtistId(3)>>,
     allowed |-> a] : a \in {<<>>, <<Other>>} }
    \cup
  { [playlists |-> LoadedShrunk.playlists,
     following |-> LoadedShrunk.following, allowed |-> <<Me>>],
    [playlists |-> LegacyLibrary,
     following |-> <<ArtistId(2), ArtistId(3)>>, allowed |-> <<>>],
    [playlists |-> CorruptedLibrary,
     following |-> <<ArtistId(1)>>, allowed |-> <<>>] }

InitSession ==
  /\ \E s \in SessionStarts :
       /\ playlists = s.playlists
       /\ following = s.following
       /\ session = Mount(s.allowed)
  /\ state = [InitialState EXCEPT !.userId = NullUser]
  /\ nextId = 10
  /\ htmlEscapes = TRUE
  /\ tasks = [t \in TaskIds |-> IdleTask]
  /\ faults = 0
  /\ started = 0
  /\ hist = NoHistory
  /\ descriptions = <<>>
  /\ jsonString = ""
  /\ loadResult = Undefined
  /\ loadPc = "idle"
  /\ call = CallIdle
  /\ listing = NoListing
  /\ naming = NoNaming

\* the main view of a session: the login screen is rendered while there
\* is no accessToken (part_000 line 446)
SessionView == session.accessToken /\ MainView

\* part_000 lines 49-62 and 97-100: the effect finds the stored token,
\* sets accessToken and calls initializeApp
InitializeApp ==
  /\ ~session.mounted
  /\ session.stored
  /\ session' = [session EXCEPT !.mounted = TRUE, !.accessToken = TRUE]
  /\ state' = [state EXCEPT !.loading = TRUE]
  /\ tasks' = [tasks EXCEPT ![1] =
                 [IdleTask EXCEPT !.handler = "initializeApp",
                                  !.stage = "user", !.op = getCurrentUser]]
  /\ UNCHANGED <<remoteVars, faults, started, hist, codecVars, call,
                 listing, naming>>

\* the request of getCurrentUser is answered and initializeApp resumes
CurrentUser(t) ==
  /\ tasks[t].op.name = "user"
  /\ \E a \in Answers :
       /\ Allowed(a, TRUE)
       /\ faults' = faults + FaultCost(a, TRUE)
       /\ LET c == initializeApp(tasks[t], Fetch(a), session.allowed, state)
          IN /\ tasks' = [tasks EXCEPT ![t] = c.task]
             /\ state' = c.state
             /\ session' = IF c.cleared
                           THEN [session EXCEPT !.stored = FALSE,
                                                !.denied = TRUE]
                           ELSE session
  /\ UNCHANGED <<remoteVars, started, hist, codecVars, call, listing,
                 naming>>

\* the names the user types for a new category
NewCategoryNames == {"Jazz", " Jazz", " Rock ", "Rock", "  ", ""}

\* String.prototype.trim
RECURSIVE trim(_)
trim(s) ==
  IF Len(s) = 0 THEN s
  ELSE IF CharAt(s, 1) \in {" ", "\t", "\n", "\r", "\f"} THEN trim(Tail(s))
  ELSE IF CharAt(s, Len(s)) \in {" ", "\t", "\n", "\r", "\f"}
  THEN trim(SubSeq(s, 1, Len(s) - 1))
  ELSE s

\* app.js lines 210-215: the test of addCategory, on the name as entered,
\* and its update, with the trimmed name; `returns` tells that line 210
\* returned
addCategoryUpdate(categories, newCategoryName) ==
  [returns |-> trim(newCategoryName) = ""
                 \/ HasKey(categories, newCategoryName),
   categoryName |-> trim(newCategoryName),
   updatedCategories |-> Put(categories, trim(newCategoryName), JArr(<<>>))]

\* app.js lines 209-222: the user confirms a new category name
AddCategory(t) ==
  /\ SessionView
  /\ FreeTask(t)
  /\ started < MaxActions
  /\ \E newCategoryName \in NewCategoryNames :
       LET u == addCategoryUpdate(state.categories, newCategoryName)
       IN /\ ~u.returns
          /\ state' = [state EXCEPT !.categories = u.updatedCategories]
          /\ tasks' = [tasks EXCEPT ![t] =
                         [IdleTask EXCEPT
                            !.handler = "addCategory",
                            !.stage = "create",
                            !.op = createCategoryPlaylist(state.userId,
                                                          u.categoryName),
                            !.local.categoryName = u.categoryName,
                            !.local.updatedCategories =
                               u.updatedCategories]]
          /\ session' = [session EXCEPT
                           !.added = @ \cup {u.categoryName},
                           !.removed = @ \ {u.categoryName}]
  /\ started' = started + 1
  /\ UNCHANGED <<remoteVars, faults, hist, codecVars, call, listing, naming>>

\* delete o[k]
DeleteKey(o, k) == JObj(SelectSeq(o.v, LAMBDA p : p[1] # k))

\* deleteCategoryUpdate that does not move the artists
deleteCategoryUpdateDropping(categories, categoryPlaylists, categoryName) ==
  [returns |-> categoryName = "Uncategorized",
   playlistId |-> IF HasKey(categoryPlaylists, categoryName)
                  THEN Get(categoryPlaylists, categoryName) ELSE 0,
   updatedCategories |-> DeleteKey(categories, categoryName)]

\* app.js lines 235-246: the test of deleteCategory and its update of an
\* existing category; `returns` tells that line 235 returned
deleteCategoryUpdate(categories, categoryPlaylists, categoryName) ==
  LET artistsToMove == Get(categories, categoryName).v
      without == DeleteKey(categories, categoryName)
  IN [returns |-> categoryName = "Uncategorized",
      playlistId |-> IF HasKey(categoryPlaylists, categoryName)
                     THEN Get(categoryPlaylists, categoryName) ELSE 0,
      updatedCategories |->
        Put(without, "Uncategorized",
            JArr((IF HasKey(without, "Uncategorized")
                  THEN Get(without, "Uncategorized").v ELSE <<>>)
                   \o artistsToMove))]

\* app.js lines 234-254 and 49-52: the delete button of a category is
\* pressed
DeleteCategory(t) ==
  /\ SessionView
  /\ FreeTask(t)
  /\ started < MaxActions
  /\ \E categoryName \in KeySet(state.categories) :
       LET u == deleteCategoryUpdate(state.categories,
                                     state.categoryPlaylists, categoryName)
       IN /\ ~u.returns
          /\ state' = [state EXCEPT
                         !.categories = u.updatedCategories,
                         !.categoryPlaylists = DeleteKey(@, categoryName),
                         !.isSaving = TRUE]
          /\ tasks' = [tasks EXCEPT ![t] =
                         [IdleTask EXCEPT
                            !.handler = "deleteCategory",
                            !.stage = "save",
                            !.op = saveCategoriesToSpotify(
                                     state.userId, u.updatedCategories),
                            !.local.categoryName = categoryName,
                            !.local.playlistId = u.playlistId]]
          /\ session' = [session EXCEPT
                           !.removed = @ \cup {categoryName}]
  /\ started' = started + 1
  /\ UNCHANGED <<remoteVars, faults, hist, codecVars, call, listing, naming>>

\* app.js line 482: the Reset All button is pressed
AskReset ==
  /\ SessionView
  /\ started < MaxActions
  /\ state' = [state EXCEPT !.showResetConfirm = TRUE]
  /\ UNCHANGED <<remoteVars, tasks, faults, started, hist, codecVars, call,
                 listing, naming, session>>

\* app.js lines 283-289 and 354: the reset is confirmed
HandleReset(t) ==
  /\ state.showResetConfirm
  /\ FreeTask(t)
  /\ state' = [state EXCEPT !.showResetConfirm = FALSE, !.loading = TRUE]
  /\ tasks' = [tasks EXCEPT ![t] =
                 [IdleTask EXCEPT !.handler = "handleReset",
                                  !.stage = "reset",
                                  !.op = resetAllData(state.userId)]]
  /\ started' = started + 1
  /\ UNCHANGED <<remoteVars, faults, hist, codecVars, call, listing, naming,
                 session>>

\* the request steps of SpecApp leave the session as it is
StepSession ==
  \E t \in TaskIds :
    \/ SaveList(t) \/ SaveWrite(t) \/ SaveDelete(t)
    \/ LoadList(t) \/ LoadDetail(t)
    \/ CreatePlaylist(t) \/ DeleteOld(t) \/ DeletePlaylist(t)
    \/ FollowedArtists(t) \/ CategoryList(t)
    \/ MigrateList(t) \/ MigrateTracks(t)
    \/ ResetList(t) \/ ResetDelete(t)

NextSession ==
  \/ InitializeApp
  \/ \E t \in TaskIds : CurrentUser(t)
  \/ \E t \in TaskIds : HandleMigration(t)
  \/ \E t \in TaskIds : AddCategory(t)
  \/ \E t \in TaskIds : DeleteCategory(t)
  \/ AskReset
  \/ \E t \in TaskIds : HandleReset(t)
  \/ StepSession

SpecSession == InitSession /\ [][NextSession]_vars

\* the edits of a loaded mapping, one after another, their saves in the
\* background
InitEdits ==
  /\ \E s \in {Loaded(<<>>, <<ArtistId(1), ArtistId(2), ArtistId(3)>>),
                LoadedShrunk} :
       /\ playlists = s.playlists
       /\ following = s.following
       /\ state = s.state
  /\ nextId = 10
  /\ htmlEscapes = TRUE
  /\ tasks = [t \in TaskIds |-> IdleTask]
  /\ faults = 0
  /\ started = 0
  /\ hist = NoHistory
  /\ descriptions = <<>>
  /\ jsonString = ""
  /\ loadResult = Undefined
  /\ loadPc = "idle"
  /\ call = CallIdle
  /\ listing = NoListing
  /\ naming = NoNaming
  /\ session = OpenSession

NextEdits ==
  \/ \E t \in TaskIds : MoveArtist(t)
  \/ \E t \in TaskIds : AddCategory(t)
  \/ \E t \in TaskIds : DeleteCategory(t)
  \/ \E t \in TaskIds : SaveList(t)
  \/ \E t \in TaskIds : SaveWrite(t)
  \/ \E t \in TaskIds : SaveDelete(t)
  \/ \E t \in TaskIds : CreatePlaylist(t)
  \/ \E t \in TaskIds : DeletePlaylist(t)

SpecEdits == InitEdits /\ [][NextEdits]_vars

\* ------------------------------------------------------------------
\* SpecFetch and SpecCodec
\* ------------------------------------------------------------------
IdleStore ==
  /\ playlists = <<>>
  /\ nextId = 10
  /\ htmlEscapes = FALSE
  /\ following = <<>>
  /\ tasks = [t \in TaskIds |-> IdleTask]
  /\ state = InitialState
  /\ faults = 0
  /\ started = 0
  /\ hist = NoHistory

InitFetch ==
  /\ IdleStore
  /\ descriptions = <<>>
  /\ jsonString = ""
  /\ loadResult = Undefined
  /\ loadPc = "idle"
  /\ \E u \in Urls, tr \in Transports :
       call = [CallIdle EXCEPT !.pc = "calling", !.url = u, !.transport = tr]
  /\ listing = NoListing
  /\ naming = NoNaming
  /\ session = OpenSession

SpecFetch == InitFetch /\ [][FetchCompletes]_vars

InitCodec ==
  /\ IdleStore
  /\ \E text \in CodecTexts, cut \in CodecCuts :
       descriptions = SlotsOf(text, cut)
  /\ jsonString = ""
  /\ loadResult = Undefined
  /\ loadPc = "join"
  /\ call = CallIdle
  /\ listing = NoListing
  /\ naming = NoNaming
  /\ session = OpenSession

NextCodec ==
  \/ LoadReconstruct
  \/ LoadBlank
  \/ LoadStrict
  \/ LoadRecover

SpecCodec == InitCodec /\ [][NextCodec]_vars

\* Specification SpecEscaped: the same decoding against a remote that has
\* HTML-escaped the stored text
InitEscaped ==
  /\ IdleStore
  /\ \E text \in CodecTexts, cut \in CodecCuts :
       descriptions = SlotsOf(htmlEscape(text), cut)
  /\ jsonString = ""
  /\ loadResult = Undefined
  /\ loadPc = "join"
  /\ call = CallIdle
  /\ listing = NoListing
  /\ naming = NoNaming
  /\ session = OpenSession

SpecEscaped == InitEscaped /\ [][NextCodec]_vars

\* ------------------------------------------------------------------
\* Specification SpecPages: the paginated listings.  The remote holds a
\* chain of pages; page k is served at PageUrl(k) and its cursor is the
\* address of page k + 1, null on the last page.
\* ------------------------------------------------------------------
MaxPages == 3
PageItems == {<<>>, <<JStr("a")>>, <<JStr("b"), JStr("c")>>}
Chains == UNION {[1..n -> PageItems] : n \in 1..MaxPages}
PageUrl(k) == "/page/" \o IntToString(k)

\* items and cursor of page k
Envelope(chain, k) ==
  JObj(<< <<"items", JArr(chain[k])>>,
          <<"next", IF k < Len(chain) THEN JStr(PageUrl(k + 1))
                    ELSE JLit("null")>> >>)

\* the parsed body of the response to GET url: the envelope, nested under
\* "artists" by the following endpoint; an error object when the status is
\* an error
RemoteBody(chain, nested, url, status) ==
  IF status # 200
  THEN JObj(<< <<"error",
                 JObj(<< <<"status", JNum(IntToString(status))>> >>)>> >>)
  ELSE IF nested
  THEN JObj(<< <<"artists",
                 Envelope(chain, CHOOSE k \in 1..Len(chain) :
                                   PageUrl(k) = url)>> >>)
  ELSE Envelope(chain, CHOOSE k \in 1..Len(chain) : PageUrl(k) = url)

\* data[key], undefined when data has no such property; with data
\* undefined this is data?.[key]
Prop(data, key) ==
  IF data.t = "obj" /\ HasKey(data, key) THEN Get(data, key) ELSE Undefined

\* line 31: the default getItems
getItems(data) == Prop(data, "items")

\* lines 31-33: results = [], nextUrl = url
fetchAllPages(l, url) ==
  [l EXCEPT !.pc = "fetching", !.url = url, !.results = <<>>]

\* results.push(...(items || [])) and the cursor: a truthy cursor is the
\* next address, anything else ends the loop
collectPage(l, r, items, next) ==
  [l EXCEPT !.results = @ \o (IF Truthy(items) THEN items.v ELSE <<>>),
            !.requests = Append(@, l.url),
            !.clean = @ /\ r.response.status = 200,
            !.url = IF Truthy(next) THEN next.v ELSE "",
            !.pc = IF Truthy(next) THEN "fetching" ELSE "returned"]

\* lines 35-46: the page is answered
fetchAllPagesAfter(l, r, data) ==
  IF r.thrown
  THEN [l EXCEPT !.pc = "thrown", !.requests = Append(@, l.url),
                 !.clean = FALSE]
  ELSE collectPage(l, r, getItems(data), Prop(data, "next"))

\* lines 62-63 of getFollowedArtists: results = [], url = the first page
followedArtistsStart(l, url) ==
  [l EXCEPT !.pc = "fetching", !.url = url, !.results = <<>>]

\* line 72: data.artists?.items
artistsItems(data) == Prop(Prop(data, "artists"), "items")

\* artistsCursor that reads the cursor of the envelope's root
artistsCursorTopLevel(data) == Prop(data, "next")

\* line 77: data.artists?.next
artistsCursor(data) == Prop(Prop(data, "artists"), "next")

\* lines 65-80: the page is answered
followedArtistsAfter(l, r, data) ==
  IF r.thrown
  THEN [l EXCEPT !.pc = "thrown", !.requests = Append(@, l.url),
                 !.clean = FALSE]
  ELSE collectPage(l, r, artistsItems(data), artistsCursor(data))

FetchAllPagesStep ==
  /\ listing.pc = "fetching"
  /\ listing.name \in {"playlists", "tracks"}
  /\ \E a \in Answers :
       /\ Allowed(a, TRUE)
       /\ faults' = faults + FaultCost(a, TRUE)
       /\ listing' = fetchAllPagesAfter(
                        listing, Fetch(a),
                        RemoteBody(listing.chain, FALSE, listing.url,
                                   Fetch(a).response.status))
  /\ UNCHANGED <<remoteVars, tasks, state, started, hist, codecVars, call,
                 naming, session>>

GetFollowedArtistsStep ==
  /\ listing.pc = "fetching"
  /\ listing.name = "artists"
  /\ \E a \in Answers :
       /\ Allowed(a, TRUE)
       /\ faults' = faults + FaultCost(a, TRUE)
       /\ listing' = followedArtistsAfter(
                        listing, Fetch(a),
                        RemoteBody(listing.chain, TRUE, listing.url,
                                   Fetch(a).response.status))
  /\ UNCHANGED <<remoteVars, tasks, state, started, hist, codecVars, call,
                 naming, session>>

InitPages ==
  /\ IdleStore
  /\ naming = NoNaming
  /\ session = OpenSession
  /\ descriptions = <<>>
  /\ jsonString = ""
  /\ loadResult = Undefined
  /\ loadPc = "idle"
  /\ call = CallIdle
  /\ \E chain \in Chains :
       \/ \E name \in {"playlists", "tracks"} :
            listing = fetchAllPages([NoListing EXCEPT !.name = name,
                                                     !.chain = chain],
                                    PageUrl(1))
       \/ listing = followedArtistsStart([NoListing EXCEPT
                                            !.name = "artists",
                                            !.chain = chain],
                                         PageUrl(1))

NextPages ==
  \/ FetchAllPagesStep
  \/ GetFollowedArtistsStep

SpecPages == InitPages /\ [][NextPages]_vars

\* ------------------------------------------------------------------
\* Specification SpecNames: playlist names put through
\* isValidDataPlaylistName and getDataPlaylistIndex, and through the slot
\* array of loadCategoriesFromSpotify
\* ------------------------------------------------------------------
MaxSuffix == 3
SuffixChars == {"_", "0", "1", "2", "x"}
Suffixes ==
  {Flatten(f, 1, Len(f)) :
     f \in UNION {[1..n -> SuffixChars] : n \in 0..MaxSuffix}}
Names ==
  {DATA_PLAYLIST_PREFIX \o x : x \in Suffixes}
    \cup {"My" \o DATA_PLAYLIST_PREFIX \o "_2"}

\* lines 232-234 and 245-254 for a listing with the one playlist `name`:
\* the filter, the index, and whether the slot text is in the joined text
ClassifyName ==
  /\ naming.pc = "named"
  /\ naming' =
       [naming EXCEPT
          !.pc = "done",
          !.valid = isValidDataPlaylistName(naming.name),
          !.index = getDataPlaylistIndex(naming.name),
          !.read =
             /\ isValidDataPlaylistName(naming.name)
             /\ JoinDescriptions(
                  [i \in {getDataPlaylistIndex(naming.name)} |-> "text"], 0)
                  = "text"]
  /\ UNCHANGED <<remoteVars, appVars, codecVars, call, listing, session>>

InitNames ==
  /\ IdleStore
  /\ descriptions = <<>>
  /\ jsonString = ""
  /\ loadResult = Undefined
  /\ loadPc = "idle"
  /\ call = CallIdle
  /\ listing = NoListing
  /\ session = OpenSession
  /\ \E name \in Names : naming = [NoNaming EXCEPT !.pc = "named",
                                                  !.name = name]

SpecNames == InitNames /\ [][ClassifyName]_vars

\* ------------------------------------------------------------------
\* Properties
\* ------------------------------------------------------------------
\* the owner's playlists that are data slots (exact name match)
DataSlots(pl) ==
  SelectSeq(pl, LAMBDA p : p.owner = Me /\ isValidDataPlaylistName(p.name))

\* the store holds exactly the chunks of `categories`, one playlist per
\* logical index
HoldsExactly(pl, categories) ==
  LET chunks == chunkData(JSONstringify(categories), DESCRIPTION_MAX_LENGTH)
      slots == DataSlots(pl)
  IN /\ Len(slots) = Len(chunks)
     /\ \A i \in 0..(Len(chunks) - 1) :
          \E k \in 1..Len(slots) :
            /\ getDataPlaylistIndex(slots[k].name) = i
            /\ slots[k].description = chunks[i + 1]

\* C1: a completed save(M) followed by a load, nothing written in
\* between, returns a mapping equal to M, whether the remote escapes the
\* descriptions or not.
C1_RoundTrip ==
  (hist.last.kind = "clean" /\ hist.load.kind = "clean")
    => SameObject(hist.load.value, hist.last.categories)

\* the ids the surplus loop of a save of `count` chunks deletes when the
\* list of existing data playlists is `list`
SurplusIds(list, count) ==
  {list[FindByName(list, getDataPlaylistName(j))].id :
     j \in {j \in count..(Len(list) - 1) :
              FindByName(list, getDataPlaylistName(j)) # 0}}

\* C2: a playlist whose name only starts with the data prefix is never a
\* data slot: load does not fetch it, save does not write or delete it and
\* does not count it, so save deletes what it would delete without it.
C2_ExactMatchFiltering ==
  LET exact(list) ==
        SelectSeq(list, LAMBDA p : isValidDataPlaylistName(p.name))
      named(id) == {hist.last.dataPlaylists[k].name :
                      k \in {k \in 1..Len(hist.last.dataPlaylists) :
                               hist.last.dataPlaylists[k].id = id}}
  IN /\ hist.load.kind = "clean" =>
          \A k \in 1..Len(hist.load.fetched) :
            hist.load.fetched[k] # ExtraPlaylist.id
     /\ hist.last.kind = "clean" =>
          /\ \A k \in 1..Len(hist.last.written) :
               hist.last.written[k] # ExtraPlaylist.id
          /\ ExtraPlaylist.id \notin hist.last.deleted
          /\ hist.last.deleted =
               SurplusIds(exact(hist.last.dataPlaylists), hist.last.count)

\* C3: a completed save of m chunks followed by a completed save of k < m
\* chunks: the second deletes exactly the playlists of the indices k..m-1
\* and rewrites the playlists of the indices 0..k-1 in place.
C3_ShrinkReindexing ==
  (hist.prev.kind = "clean" /\ hist.last.kind = "clean"
     /\ hist.last.count < hist.prev.count)
    => /\ hist.last.deleted =
            {hist.prev.written[i + 1] :
               i \in hist.last.count..(hist.prev.count - 1)}
       /\ \A i \in 0..(hist.last.count - 1) :
            hist.last.written[i + 1] = hist.prev.written[i + 1]

\* the shortest span of s that starts at the first "{" and holds as many
\* "{" as "}" characters: its end, 0 when there is none
ShortestBalancedEnd(s) ==
  LET start == Min({i \in 1..Len(s) : CharAt(s, i) = "{"})
      count(c, e) == Cardinality({i \in start..e : CharAt(s, i) = c})
      ends == {e \in start..Len(s) : count("{", e) = count("}", e)}
  IN IF ends = {} THEN 0 ELSE Min(ends)

HasBrace(s) == \E i \in 1..Len(s) : CharAt(s, i) = "{"

\* load took the recovery path on a text with a "{"
Recovering ==
  /\ loadPc = "returned"
  /\ ~IsBlank(jsonString)
  /\ ~JSONparse(jsonString).ok
  /\ HasBrace(jsonString)

\* the shortest balanced span, when the text has one that is valid JSON
SpanRecovered ==
  LET start == Min({i \in 1..Len(jsonString) : CharAt(jsonString, i) = "{"})
      end == ShortestBalancedEnd(jsonString)
  IN (end # 0 /\ JSONparse(SubSeq(jsonString, start, end)).ok)
       => loadResult = JSONparse(SubSeq(jsonString, start, end)).val

\* the prefixes of the text that are a JSON object document (ending with
\* its closing brace)
DocumentPrefixes(s) ==
  {n \in 1..(Len(s) - 1) :
     /\ CharAt(s, n) = "}"
     /\ JSONparse(SubSeq(s, 1, n)).ok
     /\ JSONparse(SubSeq(s, 1, n)).val.t = "obj"}

\* C4 as claimed: on the recovery path load returns the parse of the
\* shortest balanced span when it is valid JSON, and every valid JSON
\* object document followed by garbage is recovered as that document.
C4_RecoveryAsClaimed ==
  Recovering
    => /\ SpanRecovered
       /\ \A n \in DocumentPrefixes(jsonString) :
            loadResult = JSONparse(SubSeq(jsonString, 1, n)).val

\* C4 amended: on the recovery path load returns the parse of the shortest
\* balanced span when it is valid JSON, and a valid JSON object document
\* followed by garbage is recovered as that document when the shortest
\* balanced span (every brace character counted, also inside strings) ends
\* at the document's end.
C4_CorruptionRecovery ==
  Recovering
    => /\ SpanRecovered
       /\ \A n \in DocumentPrefixes(jsonString) :
            ShortestBalancedEnd(jsonString) = n
              => loadResult = JSONparse(SubSeq(jsonString, 1, n)).val

C4_Witness ==
  /\ Recovering
  /\ jsonString = "{\"Rock\":[\"a\",\"b\"]}garbage"
  /\ loadResult = JObj(<< <<"Rock", JArr(<<JStr("a"), JStr("b")>>)>> >>)

\* C5: on the recovery path load returns the sentinel when there is no
\* "{", no balanced span or the span does not parse, and what load returns
\* is always a category mapping or the sentinel.
C5_TotalCorruption ==
  loadPc = "returned"
    => /\ (~IsBlank(jsonString) /\ ~JSONparse(jsonString).ok
             /\ \/ ~HasBrace(jsonString)
                \/ ShortestBalancedEnd(jsonString) = 0
                \/ ~JSONparse(SubSeq(jsonString,
                                     indexOfBrace(jsonString),
                                     ShortestBalancedEnd(jsonString))).ok)
            => loadResult = Corrupted
       /\ IsMapping(loadResult) \/ loadResult = Corrupted

\* C7: after a save that failed partway, a save(M) that completes leaves
\* exactly the chunks of M in the data slots, and a load returns M.
C7_RecoveryFromPartialWrite ==
  (hist.prev.kind = "partial" /\ hist.last.kind = "clean")
    => /\ HoldsExactly(playlists, hist.last.categories)
            \/ \E t \in TaskIds : tasks[t].op.name = "save"
       /\ hist.load.kind = "clean"
            => SameObject(hist.load.value, hist.last.categories)

\* C6 (no concurrent writes): over every sequence of user actions, no
\* save issues its listing or a write while another save that is still
\* running has received its listing and has a write or delete to come.
Writing(t) ==
  tasks[t].op.name = "save" /\ tasks[t].op.pc \in {"write", "delete"}

C6_NoConcurrentWrites ==
  [][\A t \in TaskIds :
       (SaveList(t) \/ SaveWrite(t) \/ SaveDelete(t))
         => \A u \in TaskIds \ {t} : ~Writing(u)]_vars

\* C8 (migration write-then-delete): while the migration commit runs, an
\* old playlist of migrationData is missing only if the commit's save has
\* returned with every slot write answered with success.  Old playlists
\* are deleted by the commit only, and no other save runs until it ends,
\* so this is the state of the old playlists when the commit ends.
LegacyDeleted ==
  /\ state.migrationData # JLit("null")
  /\ \E k \in 1..Len(state.migrationData.oldPlaylists) :
       ~Exists(playlists, state.migrationData.oldPlaylists[k].id)

C8_MigrationWriteThenDelete ==
  \A t \in TaskIds :
    (tasks[t].handler = "handleMigration" /\ LegacyDeleted)
      => /\ hist.last.kind \in {"clean", "unclean"}
         /\ Len(hist.last.written) = hist.last.count

\* C9: for every k < 3, when the first k responses are 429 and the next
\* is not, rateLimitedFetch returns that response after exactly k+1
\* requests, each the same request.
C9_RetrySuccess ==
  call.pc # "calling"
    => \A k \in 0..2 :
         ((\A n \in 1..k : call.transport[n].status = 429)
            /\ call.transport[k + 1].status # 429)
           => /\ call.pc = "returned"
              /\ call.response = call.transport[k + 1]
              /\ call.requests = [n \in 1..(k + 1) |-> call.url]

C9_Witness ==
  /\ call.pc = "returned"
  /\ call.transport[1].status = 429 /\ call.transport[2].status = 429
  /\ call.response.status = 200
  /\ Len(call.requests) = 3

\* C10: when the remote answers 429 on each of the 3 attempts,
\* rateLimitedFetch throws and has issued exactly 3 requests.
C10_RetryExhaustion ==
  (call.pc # "calling" /\ \A n \in 1..3 : call.transport[n].status = 429)
    => /\ call.pc = "thrown"
       /\ call.requests = [n \in 1..3 |-> call.url]

C10_Witness ==
  /\ call.pc = "thrown"
  /\ Len(call.requests) = 3
  /\ call.transport[4].status = 200

\* C11: a first response whose status is not 429 (200, 401, 404, 500) is
\* returned as it is after exactly one request, with no delay and no
\* retry.
C11_OtherStatusesReturned ==
  (call.pc # "calling" /\ call.transport[1].status # 429)
    => /\ call.pc = "returned"
       /\ ~call.thrown
       /\ call.response = call.transport[1]
       /\ call.requests = <<call.url>>
       /\ call.waited = 0

C11_Witness ==
  /\ call.pc = "returned"
  /\ call.transport[1].status = 500
  /\ call.transport[2].status = 200
  /\ call.response.status = 500
  /\ Len(call.requests) = 1

\* C12: after a save into a store without data playlists, every request
\* answered with success, the owner has exactly ceil(N / 280) data
\* playlists for a document of N characters; the playlist of index 0 has
\* the base name and the playlist of index i > 0 the name base_(i+1), each
\* holds at most 280 characters, and the descriptions in index order make
\* up the document.
C12_ChunkCountAndNaming ==
  (/\ hist.last.kind = "clean"
   /\ \A k \in 1..Len(hist.last.dataPlaylists) :
        ~isValidDataPlaylistName(hist.last.dataPlaylists[k].name)
   /\ \A t \in TaskIds : tasks[t].op.name # "save")
    => LET document == JSONstringify(hist.last.categories)
           slots == DataSlots(playlists)
           named(i) ==
             SelectSeq(slots,
                       LAMBDA p :
                         p.name = IF i = 0 THEN "__ArtistOrganizer_Data"
                                  ELSE "__ArtistOrganizer_Data_"
                                         \o IntToString(i + 1))
       IN /\ (Len(slots) - 1) * 280 < Len(document)
          /\ Len(document) <= Len(slots) * 280
          /\ \A i \in 0..(Len(slots) - 1) :
               /\ Len(named(i)) = 1
               /\ Len(named(i)[1].description) <= 280
          /\ Flatten([i \in 1..Len(slots) |-> named(i - 1)[1].description],
                     1, Len(slots)) = document

C12_Witness ==
  /\ hist.last.kind = "clean"
  /\ hist.last.dataPlaylists = <<>>
  /\ hist.last.categories = LargeDocument
  /\ Len(DataSlots(playlists)) = 3
  /\ \A t \in TaskIds : tasks[t].op.name # "save"

\* C13: when the owner has no data playlist, the load ends with the
\* answer to its listing: it requests no playlist's details, the remote's
\* playlists are what they were, and unless the listing ran out of
\* retries the load returns the empty mapping.
C13_EmptyStore ==
  [][\A t \in TaskIds :
       (LoadList(t) /\ DataSlots(playlists) = <<>>)
         => /\ playlists' = playlists
            /\ nextId' = nextId
            /\ tasks'[t].op = NoOp
            /\ hist'.load.fetched = <<>>
            /\ hist'.load.kind # "thrown"
                 => hist'.load.value = EmptyObject]_vars

C13_Witness ==
  /\ hist.load.kind = "clean"
  /\ hist.load.value = EmptyObject
  /\ hist.load.fetched = <<>>
  /\ DataSlots(playlists) = <<>>
  /\ playlists = <<ExtraPlaylist, ForeignPlaylist, UnrelatedPlaylist>>
  /\ started = 1

\* the entities of lines 258-265 with the characters they stand for
Entities ==
  { <<"&quot;", "\"">>, <<"&#34;", "\"">>, <<"&amp;", "&">>, <<"&#38;", "&">>,
    <<"&lt;", "<">>, <<"&gt;", ">">>, <<"&#39;", "'">>, <<"&apos;", "'">> }

\* the entities that occur in s at position j (at most one)
EntitiesAt(s, j) ==
  {e \in Entities :
     /\ j >= 1 /\ j + Len(e[1]) - 1 <= Len(s)
     /\ SubSeq(s, j, j + Len(e[1]) - 1) = e[1]}

\* s with every occurrence of an entity replaced by its character and
\* every other character kept
Unescaped(s) ==
  Flatten([j \in 1..Len(s) |->
             IF EntitiesAt(s, j) # {}
             THEN (CHOOSE e \in EntitiesAt(s, j) : TRUE)[2]
             ELSE IF \E d \in 1..5 :
                       \E e \in EntitiesAt(s, j - d) : d < Len(e[1])
             THEN ""
             ELSE CharAt(s, j)], 1, Len(s))

\* C14: the text that load parses is the concatenation of the slots with
\* every occurrence of &quot; &#34; &amp; &#38; &lt; &gt; &#39; &apos;
\* replaced by its character, an entity split across two slots included.
C14_EntityUnescaping ==
  loadPc # "join"
    => jsonString = Unescaped(JoinDescriptions(descriptions, 0))

\* C15: no step of migrateFromOldFormat changes the remote's playlists
\* (it creates, updates and deletes nothing), and two calls in a row that
\* have every request answered with success and find the same library
\* return the same categories and the same list of old playlists.
C15_DetectPureAndRepeatable ==
  /\ []((/\ hist.detect.kind = "clean"
         /\ hist.detectPrev.kind = "clean"
         /\ hist.detect.library = hist.detectPrev.library)
          => hist.detect.value = hist.detectPrev.value)
  /\ [][\A t \in TaskIds :
          (MigrateList(t) \/ MigrateTracks(t))
            => playlists' = playlists /\ nextId' = nextId]_vars

C15_Witness ==
  /\ hist.detect.kind = "clean"
  /\ hist.detectPrev.kind = "clean"
  /\ hist.detect.library = hist.detectPrev.library
  /\ hist.detect.value # JLit("null")
  /\ hist.detect.value.categories =
       JObj(<< <<"Rock", ArtistIds(2, 3)>> >>)
  /\ Len(hist.detect.value.oldPlaylists) = 2

\* the migration commit has run to its end (lines 175-196)
CommitDone ==
  /\ state.migrationData # JLit("null")
  /\ ~state.showMigration /\ ~state.loading
  /\ state.categories = state.migrationData.categories
  /\ KeySet(state.categoryPlaylists) = KeySet(state.migrationData.categories)
  /\ state.artists # <<>>
  /\ AllIdle

\* C16: once the migration commit has run to its end with every request
\* answered with success, the owner has no playlist with the old prefix
\* and without the category prefix, and a migrateFromOldFormat that then
\* reads this library returns null although the category playlists the
\* commit created start with the old prefix.
C16_CommitThenDetectNone ==
  (CommitDone /\ faults = 0)
    => /\ \A k \in 1..Len(playlists) :
            ~(/\ playlists[k].owner = Me
              /\ startsWith(playlists[k].name, "@ ")
              /\ ~startsWith(playlists[k].name, "@ ArtistOrganizer/"))
       /\ (hist.detect.kind = "clean" /\ hist.detect.library = playlists)
            => hist.detect.value = JLit("null")

C16_Witness ==
  /\ CommitDone /\ faults = 0
  /\ hist.detect.kind = "clean" /\ hist.detect.library = playlists
  /\ hist.detect.value = JLit("null")
  /\ \E k \in 1..Len(playlists) :
       playlists[k].name = "@ ArtistOrganizer/Rock" /\ playlists[k].owner = Me

\* the owner's playlists whose name starts with the data prefix or with
\* the category prefix
ResetTargets(pl) ==
  SelectSeq(pl, LAMBDA p : /\ p.owner = Me
                           /\ \/ startsWith(p.name, "__ArtistOrganizer_Data")
                              \/ startsWith(p.name, "@ ArtistOrganizer/"))

\* C17: a resetAllData that returns with every request answered with
\* success has issued one delete for each playlist it listed, those with
\* the data prefix before those with the category prefix; the owner then
\* has no playlist with either prefix, and a load that follows returns
\* the empty mapping.
C17_BulkReset ==
  hist.reset.kind = "clean"
    => /\ hist.reset.requested =
            [k \in 1..Len(hist.reset.listed) |-> hist.reset.listed[k].id]
       /\ \A i \in 1..Len(hist.reset.listed) :
            \A j \in (i + 1)..Len(hist.reset.listed) :
              ~(/\ startsWith(hist.reset.listed[i].name, "@ ArtistOrganizer/")
                /\ startsWith(hist.reset.listed[j].name,
                              "__ArtistOrganizer_Data"))
       /\ hist.reset.value.deletedData + hist.reset.value.deletedCategories
            = Len(hist.reset.requested)
       /\ ResetTargets(playlists) = <<>>
       /\ hist.load.kind = "clean" => hist.load.value = EmptyObject

C17_Witness ==
  /\ hist.reset.kind = "clean"
  /\ hist.reset.requested = <<4, 1, 7, 8>>
  /\ hist.load.kind = "clean"
  /\ hist.load.value = EmptyObject
  /\ Len(playlists) = 4

\* C19: a deletePlaylist whose request is answered with an error status
\* returns and leaves the remote as it was; a deleteCategoryPlaylist
\* without an identifier sends no request; deleting a playlist again after
\* it was deleted leaves the remote as the first deletion left it.
C19_IdempotentDelete ==
  /\ [](\A t \in TaskIds :
          tasks[t].op.name = "delete"
            => /\ deleteAfter(tasks[t].op, Fetch("error"), playlists,
                              nextId).status = "returned"
               /\ deleteAfter(tasks[t].op, Fetch("error"), playlists,
                              nextId).playlists = playlists)
  /\ [](hist.del.kind \in {"unclean", "thrown", "skipped"}
          => hist.del.after = hist.del.before)
  /\ [](hist.del.kind = "clean"
          => /\ hist.del.after = RemoteDelete(hist.del.before, hist.del.id)
             /\ RemoteDelete(hist.del.after, hist.del.id) = hist.del.after)
  /\ []((/\ hist.delPrev.kind = "clean"
          /\ hist.del.kind \in {"clean", "unclean"}
          /\ hist.del.id = hist.delPrev.id
          /\ hist.del.before = hist.delPrev.after)
          => hist.del.after = hist.delPrev.after)
  /\ [][(hist'.del # hist.del /\ hist'.del.kind = "skipped")
          => /\ tasks' = tasks /\ playlists' = playlists
             /\ faults' = faults /\ hist'.del.requests = 0]_vars

C19_Witness ==
  /\ hist.delPrev.kind = "clean"
  /\ hist.del.kind = "unclean"
  /\ hist.del.id = 7 /\ hist.delPrev.id = 7
  /\ hist.del.before = hist.delPrev.after
  /\ hist.del.after = hist.delPrev.after
  /\ Len(hist.del.after) + 1 = Len(hist.delPrev.before)

\* the items of the first n pages, in page order
RECURSIVE ItemsUpTo(_, _)
ItemsUpTo(chain, n) ==
  IF n = 0 THEN <<>> ELSE ItemsUpTo(chain, n - 1) \o chain[n]

\* C18: a listing requests the pages in chain order, one request per
\* page, none skipped; while it runs it holds the items of the pages
\* answered so far and the cursor of the last one; when it returns with
\* every request answered with success it has requested every page of the
\* chain and returns the concatenation of their items, for the top-level
\* cursor (playlists, tracks) and the nested one (followed artists).
C18_PaginatedCollection ==
  listing.name # "none"
    => /\ Len(listing.requests) <= Len(listing.chain)
       /\ listing.requests =
            [k \in 1..Len(listing.requests) |-> PageUrl(k)]
       /\ listing.pc = "fetching"
            => /\ Len(listing.requests) < Len(listing.chain)
               /\ listing.url = PageUrl(Len(listing.requests) + 1)
               /\ listing.results =
                    ItemsUpTo(listing.chain, Len(listing.requests))
       /\ (listing.pc = "returned" /\ listing.clean)
            => /\ Len(listing.requests) = Len(listing.chain)
               /\ listing.results =
                    ItemsUpTo(listing.chain, Len(listing.chain))

C18_Witness ==
  /\ listing.name = "artists"
  /\ listing.pc = "returned" /\ listing.clean
  /\ listing.chain = << <<JStr("b"), JStr("c")>>, <<>>, <<JStr("a")>> >>
  /\ listing.results = <<JStr("b"), JStr("c"), JStr("a")>>
  /\ Len(listing.requests) = 3

\* no artist identifier is in the lists of two categories
UniqueArtists(categories) ==
  \A k1 \in 1..Len(categories.v), k2 \in 1..Len(categories.v) :
    (/\ k1 # k2
     /\ categories.v[k1][2].t = "arr"
     /\ categories.v[k2][2].t = "arr")
      => \A j1 \in 1..Len(categories.v[k1][2].v),
            j2 \in 1..Len(categories.v[k2][2].v) :
           categories.v[k1][2].v[j1] # categories.v[k2][2].v[j2]

\* C20: every mapping that a handler of the application passes to
\* saveCategoriesToSpotify has each artist identifier in the list of at
\* most one category.
C20_ArtistUniqueness ==
  \A t \in TaskIds :
    tasks[t].op.name = "save" => UniqueArtists(tasks[t].op.categories)

\* C21: no load, save, migration detection or reset returns to its caller
\* after one of its requests was answered with an error status.
C21_FailurePropagates ==
  /\ hist.load.kind # "unclean"
  /\ hist.last.kind # "unclean"
  /\ hist.detect.kind # "unclean"
  /\ hist.reset.kind # "unclean"

\* C22: every playlist that a step adds to the library (a data slot
\* created by a save, a category playlist created by
\* createCategoryPlaylist during migration or loadData) is private.
C22_CreatedPrivate ==
  [][\A k \in 1..Len(playlists') :
       ~Exists(playlists, playlists'[k].id) => ~playlists'[k].public]_vars

C22_Witness ==
  /\ \E k \in 1..Len(playlists) :
       /\ playlists[k].id >= 10
       /\ playlists[k].name = DATA_PLAYLIST_PREFIX
       /\ ~playlists[k].public
  /\ \E k \in 1..Len(playlists) :
       /\ playlists[k].id >= 10
       /\ startsWith(playlists[k].name, CATEGORY_PREFIX)
       /\ ~playlists[k].public

\* C24: once a save has returned with every request answered with
\* success, and until the next save, the owner has no data slot whose
\* index is at or beyond the number of chunks the save wrote.
C24_SurplusDeletion ==
  (/\ hist.last.kind = "clean"
   /\ \A t \in TaskIds : tasks[t].op.name # "save")
    => \A k \in 1..Len(DataSlots(playlists)) :
         getDataPlaylistIndex(DataSlots(playlists)[k].name) < hist.last.count

\* the name is the base name followed by "_" and the decimal digits of a
\* positive integer
PositiveSuffix(name) ==
  /\ startsWith(name, DATA_PLAYLIST_PREFIX \o "_")
  /\ IsDigits(SubSeq(name, Len(DATA_PLAYLIST_PREFIX) + 2, Len(name)))
  /\ parseInt(SubSeq(name, Len(DATA_PLAYLIST_PREFIX) + 2, Len(name))) >= 1

\* C25: isValidDataPlaylistName accepts exactly the base name and the base
\* name followed by "_" and a positive integer; an accepted name has an
\* index >= 0 and its slot text is part of the text load joins.
C25_ExactMatchFilter ==
  naming.pc = "done"
    => /\ naming.valid <=> (\/ naming.name = DATA_PLAYLIST_PREFIX
                            \/ PositiveSuffix(naming.name))
       /\ naming.valid => (naming.index >= 0 /\ naming.read)

\* C28: when the slots hold the HTML-escaped form of a text, the text
\* that load reconstructs is that text: escaping the reconstructed text
\* gives the slots' text back (escaping maps different texts to different
\* texts).
C28_ByteForByte ==
  loadPc # "join" => htmlEscape(jsonString) = JoinDescriptions(descriptions, 0)

\* the position in `fetched` of the last playlist fetched for logical
\* index i, 0 when there is none: the playlist whose text load uses
LastFetched(fetched, pl, i) ==
  LET F == {k \in 1..Len(fetched) :
              \E j \in 1..Len(pl) :
                /\ pl[j].id = fetched[k]
                /\ getDataPlaylistIndex(pl[j].name) = i}
  IN IF F = {} THEN 0 ELSE CHOOSE k \in F : \A m \in F : m <= k

\* C29: after a save and a following load, both with every request
\* answered with success, the playlist whose text the load uses for a
\* logical index is the playlist the save has written for that index.
C29_SameContainer ==
  (/\ hist.last.kind = "clean"
   /\ hist.load.kind = "clean"
   /\ \A t \in TaskIds : tasks[t].op.name # "save")
    => \A i \in 1..hist.last.count :
         /\ LastFetched(hist.load.fetched, playlists, i - 1) # 0
         /\ hist.load.fetched[LastFetched(hist.load.fetched, playlists,
                                          i - 1)]
              = hist.last.written[i]

\* the calls C23 names: migration check, load, save, category playlist
\* creation, reset
CredentialCalls == {"migrate", "load", "save", "create", "reset"}

\* C23: once initializeApp has refused a user who is not in a non-empty
\* ALLOWED_USER_IDS, the stored credential is cleared and no migration
\* check, load, save, category playlist creation or reset is in flight,
\* whatever the user does afterwards.
C23_AccessRestriction ==
  session.denied
    => /\ ~session.stored
       /\ \A t \in TaskIds : tasks[t].op.name \notin CredentialCalls

\* the owner has a category playlist for category c
HasContainer(pl, c) ==
  \E k \in 1..Len(pl) :
    pl[k].owner = Me /\ pl[k].name = CATEGORY_PREFIX \o c

\* C26: when no handler is in flight any more and every request has been
\* answered with success, each category added with addCategory that is
\* still in the mapping has a category playlist, and each category
\* removed with deleteCategory that is no longer in the mapping has none.
C26_ContainerLifecycle ==
  (AllIdle /\ faults = 0 /\ state.userId = Me)
    => /\ \A c \in session.added :
            HasKey(state.categories, c) => HasContainer(playlists, c)
       /\ \A c \in session.removed :
            ~HasKey(state.categories, c) => ~HasContainer(playlists, c)

\* C27: in a session a load starts only when migrateFromOldFormat has
\* been called and has finished, and while the migration prompt is shown
\* no load and no save is in flight.
C27_MigratorFirst ==
  /\ [](state.showMigration
          => \A t \in TaskIds : tasks[t].op.name \notin {"load", "save"})
  /\ [][\A t \in TaskIds :
          (tasks'[t].op.name = "load" /\ tasks[t].op.name # "load")
            => hist'.detect.kind # "none"]_vars

\* C30: once the load of loadData has returned the corruption sentinel,
\* and as long as the user has done nothing, the data slots hold the
\* corrupted texts they held (every request answered with success).
C30_NoAutomaticOverwrite ==
  (hist.sentinel /\ started = 0 /\ faults = 0)
    => DataSlots(playlists) = DataSlots(CorruptedLibrary)

\* C39: every playlist resetAllData issues a delete for is owned by the
\* user and has the data prefix or the category prefix, and a step of
\* resetAllData creates no playlist, changes no playlist and leaves every
\* other playlist in the library.
C39_ResetFrame ==
  /\ [](\A t \in TaskIds :
          tasks[t].op.name = "reset"
            => ResetTargets(tasks[t].op.listed) = tasks[t].op.listed)
  /\ [](ResetTargets(hist.reset.listed) = hist.reset.listed)
  /\ [][(\E t \in TaskIds : tasks[t].op.name = "reset")
          => /\ \A k \in 1..Len(playlists') :
                  \E j \in 1..Len(playlists) : playlists[j] = playlists'[k]
             /\ \A j \in 1..Len(playlists) :
                  (\A i \in 1..Len(ResetTargets(playlists)) :
                     ResetTargets(playlists)[i] # playlists[j])
                    => \E k \in 1..Len(playlists') :
                         playlists'[k] = playlists[j]]_vars

\* a reset has deleted the current playlists and left the old ones and
\* the unrelated one
C39_Witness ==
  /\ hist.reset.kind = "clean"
  /\ hist.reset.requested = <<4, 7, 8>>
  /\ \E k \in 1..Len(playlists) : playlists[k] = UnrelatedPlaylist
  /\ \E k \in 1..Len(playlists) : startsWith(playlists[k].name, OLD_PREFIX)

\* C35: when the reconstructed text of the data slots is empty or only
\* whitespace, load returns the empty mapping; this is not what the strict
\* parse followed by the recovery scan returns for that text (the
\* sentinel), so neither has run.
C35_BlankText ==
  [][(loadPc = "parse" /\ IsBlank(jsonString))
       => /\ loadPc' = "returned"
          /\ loadResult' = EmptyObject
          /\ loadResult' # TryParse(JSONparse(jsonString),
                                    recoverCategories(jsonString))]_vars

\* a slot that holds two spaces has been loaded
C35_Witness ==
  /\ loadPc = "returned"
  /\ descriptions = (0 :> "  ")
  /\ jsonString = "  "
  /\ loadResult = EmptyObject

\* the texts the remote returns for the owner's data slots of logical
\* index >= from, in ascending index
RECURSIVE SlotTextsFrom(_, _, _)
SlotTextsFrom(pl, escapes, from) ==
  LET slots == DataSlots(pl)
      I == {i \in {getDataPlaylistIndex(slots[k].name) :
                     k \in 1..Len(slots)} : i >= from}
      m == CHOOSE i \in I : \A j \in I : i <= j
      p == slots[CHOOSE k \in 1..Len(slots) :
                   getDataPlaylistIndex(slots[k].name) = m]
  IN IF I = {} THEN ""
     ELSE RemoteDescription(pl, p.id, escapes)
            \o SlotTextsFrom(pl, escapes, m + 1)

\* C34: whatever the order of the listing, a load whose requests are all
\* answered with success has fetched one detail per data slot, holds for
\* each fetched slot the text of the detail response at the slot's
\* logical index, and reconstructs the concatenation of the slot texts in
\* ascending logical index (index 9 after index 1, missing indices
\* skipped), entities undone.
C34_IndexOrder ==
  /\ \A t \in TaskIds :
       (tasks[t].op.name = "load" /\ tasks[t].op.clean)
         => \A k \in 1..Len(tasks[t].op.fetched) :
              LET p == tasks[t].op.dataPlaylistRefs[k]
              IN tasks[t].op.descriptions[getDataPlaylistIndex(p.name)]
                   = RemoteDescription(playlists, p.id, htmlEscapes)
  /\ hist.load.kind = "clean"
       => /\ Len(hist.load.fetched) = Len(DataSlots(playlists))
          /\ hist.load.jsonString
               = decodeEntities(SlotTextsFrom(playlists, htmlEscapes, 0))

\* the slots of index 9, 0 and 1, listed in this order by an escaping
\* remote, have been loaded
C34_Witness ==
  /\ hist.load.kind = "clean"
  /\ htmlEscapes
  /\ playlists = <<OrderSlots[3], OrderSlots[1], OrderSlots[2]>>
  /\ hist.load.fetched = <<4, 5, 6>>
  /\ hist.load.jsonString = "{\"Rock\":[\"a\",\"b\"]}"

\* the owner's data slots of logical index i
SlotsOfIndex(pl, i) ==
  {k \in 1..Len(pl) : /\ pl[k].owner = Me
                      /\ isValidDataPlaylistName(pl[k].name)
                      /\ getDataPlaylistIndex(pl[k].name) = i}

\* C32: from a store without data playlists, when every save so far has
\* returned and none is in flight, the owner has exactly one data slot for
\* each logical index below the chunk count of the last save and none for
\* another index; a write step creates a playlist only for an index that
\* has no slot, and otherwise keeps the number of playlists.
C32_OneContainerPerSlot ==
  /\ []((AllIdle /\ ~hist.aborted /\ hist.last.kind \in {"clean", "unclean"})
         => /\ \A i \in 0..(hist.last.count - 1) :
                 Cardinality(SlotsOfIndex(playlists, i)) = 1
            /\ Len(DataSlots(playlists)) = hist.last.count)
  /\ [][\A t \in TaskIds :
          (tasks[t].op.name = "save" /\ tasks[t].op.pc = "write")
            => IF nextId' # nextId
               THEN SlotsOfIndex(playlists, tasks[t].op.i) = {}
               ELSE Len(playlists') = Len(playlists)
                      \/ tasks'[t].op.name # "save"
                      \/ tasks'[t].op.pc # "write"]_vars

\* the shape of the store during or after a save of `categories` that
\* found the library `before` and has rewritten `written`: each data slot
\* holds the text it had or the chunk of its index, and the k-th slot
\* rewritten is the slot of index k - 1
PartialShape(pl, before, categories, written) ==
  LET chunks == chunkData(JSONstringify(categories), DESCRIPTION_MAX_LENGTH)
  IN /\ \A k \in 1..Len(pl) :
          (pl[k].owner = Me /\ isValidDataPlaylistName(pl[k].name))
            => LET i == getDataPlaylistIndex(pl[k].name)
               IN \/ i < Len(chunks) /\ pl[k].description = chunks[i + 1]
                  \/ \E j \in 1..Len(before) : before[j] = pl[k]
     /\ \A k \in 1..Len(written) :
          \E j \in 1..Len(pl) :
            /\ pl[j].id = written[k]
            /\ pl[j].name = getDataPlaylistName(k - 1)

\* C33: while a save is writing or deleting, and after it has returned
\* or aborted, every data slot holds its text of before the save or the
\* new chunk of its index, and the slots rewritten are those of the
\* indices 0..j in this order; a data slot disappears only in the
\* deletion phase of a save, after the last chunk was written.
C33_PartialWriteShape ==
  /\ [](\A t \in TaskIds :
          (tasks[t].op.name = "save" /\ tasks[t].op.pc \in {"write", "delete"})
            => PartialShape(playlists, tasks[t].op.before,
                            tasks[t].op.categories, tasks[t].op.written))
  /\ []((AllIdle /\ hist.last.kind \in {"clean", "unclean", "partial"})
          => PartialShape(playlists, hist.last.before, hist.last.categories,
                          hist.last.written))
  /\ [][Len(DataSlots(playlists')) < Len(DataSlots(playlists))
          => \E t \in TaskIds :
               /\ tasks[t].op.name = "save"
               /\ tasks[t].op.pc = "delete"
               /\ tasks[t].op.i >= Len(tasks[t].op.chunks)]_vars

\* C31: after edit actions performed one after another, once every
\* background save has completed with every request answered, the store
\* holds the mapping of the last action, which is the in-memory mapping.
C31_LastEditWins ==
  (AllIdle /\ faults = 0 /\ started > 0)
    => HoldsExactly(playlists, state.categories)

\* C37: addCategory changes the mapping only for an entered name that
\* is not blank and, trimmed, is not an existing category; the step then
\* adds one category with an empty list and every existing category
\* keeps its artist list.
C37_AddCategoryFrame ==
  [][\A t \in TaskIds :
       (tasks[t].handler = "idle" /\ tasks'[t].handler = "addCategory")
         => LET categoryName == tasks'[t].local.categoryName
            IN /\ categoryName # ""
               /\ ~HasKey(state.categories, categoryName)
               /\ KeySet(state'.categories)
                    = KeySet(state.categories) \cup {categoryName}
               /\ Get(state'.categories, categoryName) = JArr(<<>>)
               /\ \A c \in KeySet(state.categories) :
                    Get(state'.categories, c) = Get(state.categories, c)]_vars

\* the artist identifiers of a mapping, over all its categories
MappedIds(categories) ==
  UNION { { Get(categories, c).v[k] : k \in 1..Len(Get(categories, c).v) } :
          c \in KeySet(categories) }

\* C38: deleteCategory never acts on 'Uncategorized'; on another existing
\* category the step removes it, appends its artist identifiers to
\* 'Uncategorized', keeps the other lists and the set of identifiers of the
\* mapping, and starts the save of that updated mapping.
C38_DeleteCategory ==
  [][\A t \in TaskIds :
       (tasks[t].handler = "idle" /\ tasks'[t].handler = "deleteCategory")
         => LET categoryName == tasks'[t].local.categoryName
                kept == IF HasKey(state.categories, "Uncategorized")
                        THEN Get(state.categories, "Uncategorized").v
                        ELSE <<>>
            IN /\ categoryName # "Uncategorized"
               /\ HasKey(state.categories, categoryName)
               /\ KeySet(state'.categories)
                    = (KeySet(state.categories) \ {categoryName})
                        \cup {"Uncategorized"}
               /\ Get(state'.categories, "Uncategorized").v
                    = kept \o Get(state.categories, categoryName).v
               /\ \A c \in KeySet(state'.categories) \ {"Uncategorized"} :
                    Get(state'.categories, c) = Get(state.categories, c)
               /\ MappedIds(state'.categories) = MappedIds(state.categories)
               /\ tasks'[t].op.name = "save"
               /\ tasks'[t].op.categories = state'.categories]_vars

C38_Witness ==
  /\ session.removed = {"Rock"}
  /\ \E t \in TaskIds :
       /\ tasks[t].handler = "deleteCategory"
       /\ tasks[t].op.name = "save"
       /\ tasks[t].op.categories = state.categories
  /\ state.categories
       = JObj(<< <<"Uncategorized",
                  JArr(<<JStr(ArtistId(1)), JStr(ArtistId(2)),
                         JStr(ArtistId(3))>>)>> >>)

\* every value of the mapping is a list and no identifier is in the
\* lists of two categories
NoArtistTwice(categories) ==
  /\ \A c \in KeySet(categories) : Get(categories, c).t = "arr"
  /\ \A c, d \in KeySet(categories) :
       c # d => \A k \in 1..Len(Get(categories, c).v) :
                  \A j \in 1..Len(Get(categories, d).v) :
                    Get(categories, c).v[k] # Get(categories, d).v[j]

\* the categories of the mapping whose list holds the identifier
CategoriesOf(categories, id) ==
  { c \in KeySet(categories) :
      \E k \in 1..Len(Get(categories, c).v) : Get(categories, c).v[k] = id }

\* some category's list in `after` is not its list in `before`, an absent
\* list counting as empty
ListsChanged(before, after) ==
  \E c \in KeySet(before) \cup KeySet(after) :
    (IF HasKey(before, c) THEN Get(before, c) ELSE JArr(<<>>))
      # (IF HasKey(after, c) THEN Get(after, c) ELSE JArr(<<>>))

\* C36: when loadData has completed on a loaded mapping with no artist in
\* two categories, the mapping it set has 'Uncategorized', holds every
\* followed artist in exactly one category and no other identifier, and
\* is the mapping of the last save whenever a list was changed.
C36_LoadDataPost ==
  LET d == hist.loadData
      followed == {JStr(following[k]) : k \in 1..Len(following)}
  IN (d.done /\ NoArtistTwice(d.loaded))
       => /\ HasKey(d.categories, "Uncategorized")
          /\ \A id \in followed :
               Cardinality(CategoriesOf(d.categories, id)) = 1
          /\ MappedIds(d.categories) \subseteq followed
          /\ ListsChanged(d.loaded, d.categories)
               => SameObject(d.written, d.categories)

====
